---- MODULE Spec2Model ----
(***************************************************************************)
(* ClarityWorks advisor dashboard: the client store                        *)
(* (clientStorageService.ts), the interaction store (storageService.ts)    *)
(* and the App handlers that drive them, over the two localStorage keys.   *)
(***************************************************************************)
EXTENDS Integers, Sequences, FiniteSets, TLC

(***************************************************************************)
(* Bounds of the model.                                                    *)
(***************************************************************************)
MaxCustom == 2   \* longest custom-client list the model lets addClient build
MaxLog == 3      \* longest interaction log the model lets addInteraction build
MaxTime == 1     \* Date.now() ranges over 0..MaxTime
MaxCreated == 3  \* most records the two create operations build together
MaxRecords == 2  \* most records one text of the add-client form gives
MaxRequests == 2 \* most fetch calls the AI services issue
MaxSeedOn == 3   \* longest interaction log initializeSampleInteractions is called on
MaxClicks == 2   \* most clicks on Generate and Regenerate

(***************************************************************************)
(* Ids.  An id string is modelled by its literal prefix and the two parts  *)
(* the code appends to it: 'client-custom-<Date.now()>-<random>' is        *)
(* [pre |-> "client-custom-", n |-> t, r |-> s]; 'client-001' is           *)
(* [pre |-> "client-", n |-> 1, r |-> 0].                                  *)
(***************************************************************************)
MkId(pre, n, r) == [pre |-> pre, n |-> n, r |-> r]

\* Math.random().toString(36).substr(2, 9): the suffixes two calls may draw.
RandomSuffixes == {0, 1}

CUSTOM_PREFIX == "client-custom-"

\* id.startsWith('client-custom-')
isCustomClient(id) == id.pre = CUSTOM_PREFIX

\* The built-in sample clients, in their source order.
mockClientsData ==
  << [id |-> MkId("client-", 1, 0), name |-> "Margaret Chen"],
     [id |-> MkId("client-", 2, 0), name |-> "Robert & Diana Hartwell"] >>

BuiltInIds == { mockClientsData[i].id : i \in 1..Len(mockClientsData) }

\* The credential of a build that has one; without one apiKey is undefined,
\* kept here as the empty string, which is falsy as well.
ConfiguredKey == "sk-test"

\* Names an advisor or the upstream model may give a new client.
Names == {"Ann", "Margaret Chen"}

\* An id the upstream document parser may have put on the record it returns
\* (docIngestService: parsed.id || `client-doc-${Date.now()}`): any string.
DocIds == { MkId("client-doc-", 0, 0), MkId("client-", 1, 0) }

\* Records handed to addClient: Omit<Client,'id'> from the add-client form,
\* or a full Client (id included) from the document-onboarding path.
ClientInputs ==
  { [name |-> nm] : nm \in Names }
    \cup { [name |-> nm, id |-> i] : nm \in Names, i \in DocIds }

\* Partial<Client> values handed to updateClient.
UpdateIds == { MkId("client-", 1, 0) }

ClientUpdates ==
  { [name |-> nm] : nm \in Names }
    \cup { [id |-> i] : i \in UpdateIds }

\* Ids deleteClient / updateClient may be called with.
CustomIds == { MkId(CUSTOM_PREFIX, t, s) : t \in 0..MaxTime, s \in RandomSuffixes }

ClientIdArgs == BuiltInIds \cup CustomIds

\* The elements of an array.
Range(seq) == { seq[i] : i \in 1..Len(seq) }

(***************************************************************************)
(* Object spread { ...a, ...b }: b's fields override a's.                  *)
(***************************************************************************)
Spread(a, b) ==
  [f \in (DOMAIN a) \cup (DOMAIN b) |-> IF f \in DOMAIN b THEN b[f] ELSE a[f]]

(***************************************************************************)
(* localStorage.  The string under a key is modelled by what JSON.parse    *)
(* makes of it: "absent" (getItem gives null), "empty" (the empty string), *)
(* "text" (not parseable: JSON.parse throws), "null" / "object" / "number" *)
(* (parseable, not an array) and "array" with its items.                   *)
(***************************************************************************)
Absent == [tag |-> "absent"]

\* JSON.stringify(list), as localStorage.setItem stores it.
Stringify(items) == [tag |-> "array", items |-> items]

\* try { data ? JSON.parse(data) : [] } catch { [] }
ReadKey(data) ==
  IF data.tag \in {"absent", "empty", "text"} THEN Stringify(<< >>) ELSE data

IsArray(v) == v.tag = "array"

Items(data) == IF IsArray(ReadKey(data)) THEN ReadKey(data).items ELSE << >>

\* The outcome of one store call: what it returned or that it threw, the
\* content of the key afterwards, and whether setItem was called.
\* JavaScript's null, where a function returns an object or null.
Null == [null |-> TRUE]

Outcome(store, ret, threw, wrote) ==
  [store |-> store, ret |-> ret, threw |-> threw, wrote |-> wrote]

Threw(store) == Outcome(store, "TypeError", TRUE, FALSE)

(***************************************************************************)
(* clientStorageService.ts                                                 *)
(***************************************************************************)
getCustomClients(data) == ReadKey(data)

\* A getAllClients that lists the custom clients before the built-in ones.
getAllClients_CustomFirst(mock, data) ==
  IF IsArray(ReadKey(data))
  THEN Outcome(data, ReadKey(data).items \o mock, FALSE, FALSE)
  ELSE Threw(data)

\* [...mockClients, ...customClients]: spreading a non-iterable throws.
getAllClients(mock, data) ==
  IF IsArray(getCustomClients(data))
  THEN Outcome(data, mock \o getCustomClients(data).items, FALSE, FALSE)
  ELSE Threw(data)

\* An addClient that spreads the caller's record over the new id
\* ({ id: ..., ...client }), so that an id the caller passed survives.
addClient_KeepsCallerId(data, client, t, s) ==
  IF IsArray(getCustomClients(data))
  THEN LET newClient == Spread([id |-> MkId(CUSTOM_PREFIX, t, s)], client)
       IN  Outcome(Stringify(Append(getCustomClients(data).items, newClient)),
                   newClient, FALSE, TRUE)
  ELSE Threw(data)

\* { ...client, id: `client-custom-${Date.now()}-${random}` }: the id is
\* written after the spread, so addClient keeps no id the caller passed.
addClient(data, client, t, s) ==
  IF IsArray(getCustomClients(data))
  THEN LET newClient == Spread(client, [id |-> MkId(CUSTOM_PREFIX, t, s)])
       IN  Outcome(Stringify(Append(getCustomClients(data).items, newClient)),
                   newClient, FALSE, TRUE)
  ELSE Threw(data)

\* customClients.findIndex(c => c.id === id): 0 stands for -1.
FindIndex(items, id) ==
  IF \E i \in 1..Len(items) : items[i].id = id
  THEN CHOOSE i \in 1..Len(items) :
         /\ items[i].id = id
         /\ \A j \in 1..(i - 1) : items[j].id # id
  ELSE 0

updateClient(data, id, updates) ==
  IF IsArray(getCustomClients(data))
  THEN LET customClients == getCustomClients(data).items
           index == FindIndex(customClients, id)
       IN  IF index = 0
           THEN Outcome(data, Null, FALSE, FALSE)
           ELSE LET updated == Spread(customClients[index], updates)
                IN  Outcome(Stringify([customClients EXCEPT ![index] = updated]),
                            updated, FALSE, TRUE)
  ELSE Threw(data)

deleteClient(data, id) ==
  IF IsArray(getCustomClients(data))
  THEN LET customClients == getCustomClients(data).items
           filtered == SelectSeq(customClients, LAMBDA c : c.id # id)
       IN  IF Len(filtered) = Len(customClients)
           THEN Outcome(data, FALSE, FALSE, FALSE)
           ELSE Outcome(Stringify(filtered), TRUE, FALSE, TRUE)
  ELSE Threw(data)

(***************************************************************************)
(* storageService.ts                                                       *)
(***************************************************************************)
\* Event dates as the forms hold them: <input type="date"> gives
\* 'YYYY-MM-DD', or the empty string once the advisor clears the field.
Dates == {"", "2024-10-20", "2024-11-15"}

\* new Date(date).getTime() is NaN exactly for a string that is no date.
IsInvalidDate(date) == date = ""

\* new Date(date).getTime() of a valid date, in days (order is all that the
\* comparator uses).
getTime(date) ==
  CASE date = "2024-08-22" -> 20240822
    [] date = "2024-09-05" -> 20240905
    [] date = "2024-10-15" -> 20241015
    [] date = "2024-10-20" -> 20241020
    [] date = "2024-11-15" -> 20241115
    [] date = "2024-11-28" -> 20241128

\* (a, b) => new Date(b.date).getTime() - new Date(a.date).getTime(); sort
\* reads a NaN result as +0.
compareFn(a, b) ==
  IF IsInvalidDate(a.date) \/ IsInvalidDate(b.date)
  THEN 0
  ELSE getTime(b.date) - getTime(a.date)

\* Array.prototype.sort requires a consistent comparator: "compares equal"
\* must be transitive.  It is not once an invalid date meets two different
\* valid dates.
ConsistentComparator(s) ==
  \A i, j, k \in 1..Len(s) :
    (compareFn(s[i], s[j]) = 0 /\ compareFn(s[j], s[k]) = 0)
      => compareFn(s[i], s[k]) = 0

\* Insert x behind every element that does not sort after it (stable).
RECURSIVE InsertSorted(_, _)
InsertSorted(sorted, x) ==
  IF sorted = << >> THEN << x >>
  ELSE IF compareFn(x, Head(sorted)) < 0
       THEN << x >> \o sorted
       ELSE << Head(sorted) >> \o InsertSorted(Tail(sorted), x)

RECURSIVE StableSort(_)
StableSort(s) ==
  IF s = << >> THEN << >>
  ELSE InsertSorted(StableSort(SubSeq(s, 1, Len(s) - 1)), s[Len(s)])

Reorderings(s) ==
  { [i \in 1..Len(s) |-> s[p[i]]] :
      p \in { q \in [1..Len(s) -> 1..Len(s)] :
                \A a, b \in 1..Len(s) : a # b => q[a] # q[b] } }

\* The results .sort(compareFn) may give: the stable sort, or, with an
\* inconsistent comparator, an implementation-defined order.
SortResults(s) ==
  IF ConsistentComparator(s) THEN { StableSort(s) } ELSE Reorderings(s)

getAllInteractions(data) == ReadKey(data)

\* all.filter(i => i.clientId === clientId).sort(...): the set of outcomes.
getClientInteractions(data, clientId) ==
  IF IsArray(getAllInteractions(data))
  THEN { Outcome(data, sorted, FALSE, FALSE) :
           sorted \in SortResults(SelectSeq(getAllInteractions(data).items,
                                            LAMBDA i : i.clientId = clientId)) }
  ELSE { Threw(data) }

\* An addInteraction that puts the new record first (unshift for push).
addInteraction_Unshift(data, interaction, t, s) ==
  IF IsArray(ReadKey(data))
  THEN LET newInteraction ==
             Spread(interaction,
                    [id |-> MkId("interaction-", t, s), createdAt |-> t])
       IN  Outcome(Stringify(<< newInteraction >> \o ReadKey(data).items),
                   newInteraction, FALSE, TRUE)
  ELSE Threw(data)

\* { ...interaction, id: `interaction-${Date.now()}-${random}`,
\*   createdAt: new Date().toISOString() }, pushed and stored.
addInteraction(data, interaction, t, s) ==
  IF IsArray(getAllInteractions(data))
  THEN LET newInteraction ==
             Spread(interaction,
                    [id |-> MkId("interaction-", t, s), createdAt |-> t])
       IN  Outcome(Stringify(Append(getAllInteractions(data).items,
                                    newInteraction)),
                   newInteraction, FALSE, TRUE)
  ELSE Threw(data)

updateInteraction(data, id, updates) ==
  IF IsArray(getAllInteractions(data))
  THEN LET all == getAllInteractions(data).items
           index == FindIndex(all, id)
       IN  IF index = 0
           THEN Outcome(data, Null, FALSE, FALSE)
           ELSE LET updated == Spread(all[index], updates)
                IN  Outcome(Stringify([all EXCEPT ![index] = updated]),
                            updated, FALSE, TRUE)
  ELSE Threw(data)

\* A deleteInteraction that drops only the first record carrying the id.
deleteInteraction_FirstOnly(data, id) ==
  IF IsArray(ReadKey(data))
  THEN LET all == ReadKey(data).items
           index == FindIndex(all, id)
       IN  IF index = 0
           THEN Outcome(data, FALSE, FALSE, FALSE)
           ELSE Outcome(Stringify(SubSeq(all, 1, index - 1)
                                    \o SubSeq(all, index + 1, Len(all))),
                        TRUE, FALSE, TRUE)
  ELSE Threw(data)

deleteInteraction(data, id) ==
  IF IsArray(getAllInteractions(data))
  THEN LET all == getAllInteractions(data).items
           filtered == SelectSeq(all, LAMBDA i : i.id # id)
       IN  IF Len(filtered) = Len(all)
           THEN Outcome(data, FALSE, FALSE, FALSE)
           ELSE Outcome(Stringify(filtered), TRUE, FALSE, TRUE)
  ELSE Threw(data)

\* Client ids an interaction may be filed under (clientId is not validated).
LogClientIds == { MkId("client-", 1, 0), MkId(CUSTOM_PREFIX, 0, 0) }

Titles == {"Note"}

\* Omit<Interaction, 'id' | 'createdAt'>
InteractionInputs ==
  { [clientId |-> c, date |-> d, title |-> ti] :
      c \in LogClientIds, d \in Dates, ti \in Titles }

InteractionIds ==
  { MkId("interaction-", t, s) : t \in 0..MaxTime, s \in RandomSuffixes }

\* Partial<Interaction> values handed to updateInteraction.
InteractionUpdates ==
  { [title |-> "Edited"], [date |-> "2024-11-15"],
    [id |-> MkId("interaction-", 0, 0)],
    [clientId |-> MkId("client-", 1, 0)] }

\* The two fixed sample histories of initializeSampleInteractions.
sampleInteractions(clientId) ==
  IF clientId = MkId("client-", 1, 0)
  THEN << [clientId |-> MkId("client-", 1, 0), date |-> "2024-11-15",
           title |-> "Quarterly Portfolio Review"],
          [clientId |-> MkId("client-", 1, 0), date |-> "2024-10-20",
           title |-> "Market Volatility Check-in"],
          [clientId |-> MkId("client-", 1, 0), date |-> "2024-09-05",
           title |-> "Annual Planning Session"] >>
  ELSE << [clientId |-> MkId("client-", 2, 0), date |-> "2024-11-28",
           title |-> "Year-End Planning Session"],
          [clientId |-> MkId("client-", 2, 0), date |-> "2024-10-15",
           title |-> "Trust Document Update"],
          [clientId |-> MkId("client-", 2, 0), date |-> "2024-08-22",
           title |-> "Mid-Year Review"] >>

\* sampleInteractions.forEach(interaction => addInteraction(interaction)),
\* the k-th call drawing the random suffix ss[k].
RECURSIVE AddEach(_, _, _, _)
AddEach(data, samples, t, ss) ==
  IF samples = << >> THEN data
  ELSE AddEach(addInteraction(data, Head(samples), t, Head(ss)).store,
               Tail(samples), t, Tail(ss))

initializeSampleInteractions_Reset(data, clientId, t, ss) ==
  LET existing == getClientInteractions(data, clientId)
  IN  IF \E o \in existing : o.threw
      THEN Threw(data)
      ELSE IF \E o \in existing : Len(o.ret) > 0
           THEN Outcome(data, "undefined", FALSE, FALSE)
           ELSE Outcome(AddEach(Stringify(<< >>), sampleInteractions(clientId),
                                t, ss),
                        "undefined", FALSE, TRUE)

initializeSampleInteractions(data, clientId, t, ss) ==
  LET existing == getClientInteractions(data, clientId)
  IN  IF \E o \in existing : o.threw
      THEN Threw(data)
      ELSE IF \E o \in existing : Len(o.ret) > 0
           THEN Outcome(data, "undefined", FALSE, FALSE)
           ELSE Outcome(AddEach(data, sampleInteractions(clientId), t, ss),
                        "undefined", FALSE, TRUE)

\* The three suffixes one seeding draws, here three different ones.
SuffixTriples == { << 2, 3, 4 >>, << 5, 6, 7 >> }

\* Client ids the effect on selectedClientId passes: the built-in clients and
\* a custom one.
SeedClientIds == BuiltInIds \cup { MkId(CUSTOM_PREFIX, 0, 0) }

(***************************************************************************)
(* JavaScript values of the form texts.  A value is kept under the name of *)
(* its type; a string is the sequence of its characters; a number is kept  *)
(* in hundredths (12.5 is 1250), decimals past the second dropped.         *)
(***************************************************************************)
Num(n) == [number |-> n]

NaN == [nan |-> TRUE]

Str(chars) == [string |-> chars]

Undefined == [undefined |-> TRUE]

Bool(b) == [boolean |-> b]

Obj(fields) == [object |-> fields]

Arr(elements) == [array |-> elements]

IsNum(v) == DOMAIN v = {"number"}

IsStr(v) == DOMAIN v = {"string"}

\* JavaScript's falsy values: '', 0, NaN, undefined, null, false.
Falsy(v) ==
  \/ v = Str(<< >>)
  \/ v = Num(0)
  \/ v \in {NaN, Undefined, Null, Bool(FALSE)}

\* a || b
OrElse(a, b) == IF Falsy(a) THEN b ELSE a

Digits == {"0", "1", "2", "3", "4", "5", "6", "7", "8", "9"}

DigitValue(c) ==
  CASE c = "0" -> 0 [] c = "1" -> 1 [] c = "2" -> 2 [] c = "3" -> 3
    [] c = "4" -> 4 [] c = "5" -> 5 [] c = "6" -> 6 [] c = "7" -> 7
    [] c = "8" -> 8 [] c = "9" -> 9

WhiteSpace == {" ", "\t", "\n", "\r"}

\* The longest beginning of chars made of digits.
RECURSIVE TakeDigits(_)
TakeDigits(chars) ==
  IF chars # << >> /\ Head(chars) \in Digits
  THEN << Head(chars) >> \o TakeDigits(Tail(chars))
  ELSE << >>

\* The number a sequence of digits writes.
RECURSIVE DigitsValue(_)
DigitsValue(ds) ==
  IF ds = << >> THEN 0
  ELSE 10 * DigitsValue(SubSeq(ds, 1, Len(ds) - 1)) + DigitValue(ds[Len(ds)])

\* Hundredths written by the digits after the decimal point.
Hundredths(ds) ==
  IF Len(ds) = 0 THEN 0
  ELSE IF Len(ds) = 1 THEN 10 * DigitValue(ds[1])
  ELSE 10 * DigitValue(ds[1]) + DigitValue(ds[2])

RECURSIVE TrimStart(_)
TrimStart(chars) ==
  IF chars # << >> /\ Head(chars) \in WhiteSpace
  THEN TrimStart(Tail(chars))
  ELSE chars

RECURSIVE TrimEnd(_)
TrimEnd(chars) ==
  IF chars # << >> /\ chars[Len(chars)] \in WhiteSpace
  THEN TrimEnd(SubSeq(chars, 1, Len(chars) - 1))
  ELSE chars

\* String.prototype.trim
Trim(chars) == TrimEnd(TrimStart(chars))

\* parseFloat of a string: leading white space, a sign, digits, a decimal
\* point, digits; what follows is ignored; NaN when no digit is found.
parseFloat(chars) ==
  LET t == TrimStart(chars)
      signed == t # << >> /\ Head(t) \in {"-", "+"}
      negative == t # << >> /\ Head(t) = "-"
      u == IF signed THEN Tail(t) ELSE t
      whole == TakeDigits(u)
      rest == SubSeq(u, Len(whole) + 1, Len(u))
      frac == IF rest # << >> /\ Head(rest) = "."
              THEN TakeDigits(Tail(rest)) ELSE << >>
      magnitude == 100 * DigitsValue(whole) + Hundredths(frac)
  IN  IF whole = << >> /\ frac = << >>
      THEN NaN
      ELSE Num(IF negative THEN 0 - magnitude ELSE magnitude)

\* s.replace(/[^0-9.]/g, '')
StripNonNumeric(chars) == SelectSeq(chars, LAMBDA c : c \in Digits \cup {"."})

\* s.split(sep) for a one-character separator.
RECURSIVE Split(_, _)
Split(chars, sep) ==
  IF \E i \in 1..Len(chars) : chars[i] = sep
  THEN LET i == CHOOSE k \in 1..Len(chars) :
                  /\ chars[k] = sep
                  /\ \A j \in 1..(k - 1) : chars[j] # sep
       IN  << SubSeq(chars, 1, i - 1) >>
             \o Split(SubSeq(chars, i + 1, Len(chars)), sep)
  ELSE << chars >>

(***************************************************************************)
(* JSON.parse and JSON.stringify over character sequences: null, true,     *)
(* false, numbers without exponent, strings with one-character escapes,    *)
(* arrays and objects.  An object is the sequence of its members.           *)
(***************************************************************************)
Parsed(value, rest) == [ok |-> TRUE, value |-> value, rest |-> rest]

SyntaxError == [ok |-> FALSE, value |-> Null, rest |-> << >>]

StartsWith(chars, word) ==
  /\ Len(chars) >= Len(word)
  /\ SubSeq(chars, 1, Len(word)) = word

\* The character that \n, \r, \t, \", \\ and \/ stand for in a string.
EscapedChar(c) ==
  CASE c = "n" -> "\n" [] c = "r" -> "\r" [] c = "t" -> "\t" [] OTHER -> c

\* The escape JSON.stringify writes for a character that needs one.
EscapeOf(c) ==
  CASE c = "\n" -> << "\\", "n" >>
    [] c = "\r" -> << "\\", "r" >>
    [] c = "\t" -> << "\\", "t" >>
    [] c \in {"\"", "\\"} -> << "\\", c >>
    [] OTHER -> << c >>

\* The number of backslashes right before the i-th character.
RECURSIVE BackslashRun(_, _)
BackslashRun(chars, i) ==
  IF i > 1 /\ chars[i - 1] = "\\" THEN 1 + BackslashRun(chars, i - 1) ELSE 0

\* Whether the i-th character is a backslash that escapes the next one.
Escapes(chars, i) == chars[i] = "\\" /\ BackslashRun(chars, i) % 2 = 0

\* The characters of a string literal after its opening quote: up to the
\* first quote that is not escaped, without the escaping backslashes.
ParseStringTail(chars) ==
  LET closing == { i \in 1..Len(chars) :
                     chars[i] = "\"" /\ BackslashRun(chars, i) % 2 = 0 }
      end == CHOOSE i \in closing : \A j \in closing : i <= j
      body == SubSeq(chars, 1, end - 1)
      kept == SelectSeq([j \in 1..Len(body) |-> j],
                        LAMBDA j : ~Escapes(body, j))
  IN  IF \/ closing = {}
         \/ \E j \in 1..Len(body) :
              \/ body[j] \in {"\n", "\r", "\t"}
              \/ /\ Escapes(body, j)
                 /\ chars[j + 1] \notin {"\"", "\\", "/", "n", "r", "t"}
      THEN SyntaxError
      ELSE Parsed(Str([n \in 1..Len(kept) |->
                         IF kept[n] > 1 /\ Escapes(body, kept[n] - 1)
                         THEN EscapedChar(body[kept[n]])
                         ELSE body[kept[n]]]),
                  SubSeq(chars, end + 1, Len(chars)))

ParseNumber(chars) ==
  LET negative == Head(chars) = "-"
      u == IF negative THEN Tail(chars) ELSE chars
      whole == TakeDigits(u)
      rest == SubSeq(u, Len(whole) + 1, Len(u))
      dotted == rest # << >> /\ Head(rest) = "."
      frac == IF dotted THEN TakeDigits(Tail(rest)) ELSE << >>
      after == IF dotted THEN SubSeq(rest, Len(frac) + 2, Len(rest)) ELSE rest
      magnitude == 100 * DigitsValue(whole) + Hundredths(frac)
  IN  IF \/ whole = << >>
         \/ (Len(whole) > 1 /\ Head(whole) = "0")
         \/ (dotted /\ frac = << >>)
      THEN SyntaxError
      ELSE Parsed(Num(IF negative THEN 0 - magnitude ELSE magnitude), after)

RECURSIVE ParseValue(_), ElementsAfter(_, _), ParseMembers(_, _)
ParseValue(chars) ==
  LET t == TrimStart(chars)
  IN  IF t = << >> THEN SyntaxError
      ELSE IF StartsWith(t, << "n", "u", "l", "l" >>)
           THEN Parsed(Null, SubSeq(t, 5, Len(t)))
      ELSE IF StartsWith(t, << "t", "r", "u", "e" >>)
           THEN Parsed(Bool(TRUE), SubSeq(t, 5, Len(t)))
      ELSE IF StartsWith(t, << "f", "a", "l", "s", "e" >>)
           THEN Parsed(Bool(FALSE), SubSeq(t, 6, Len(t)))
      ELSE IF Head(t) = "\"" THEN ParseStringTail(Tail(t))
      ELSE IF Head(t) \in Digits \cup {"-"} THEN ParseNumber(t)
      ELSE IF Head(t) = "["
           THEN LET u == TrimStart(Tail(t))
                IN  IF u # << >> /\ Head(u) = "]"
                    THEN Parsed(Arr(<< >>), Tail(u))
                    ELSE ElementsAfter(ParseValue(u), << >>)
      ELSE IF Head(t) = "{"
           THEN LET u == TrimStart(Tail(t))
                IN  IF u # << >> /\ Head(u) = "}"
                    THEN Parsed(Obj(<< >>), Tail(u))
                    ELSE ParseMembers(u, << >>)
      ELSE SyntaxError

\* The rest of an array whose next element was read as r, acc being the
\* elements before it.
ElementsAfter(r, acc) ==
  LET t == TrimStart(r.rest)
  IN  IF ~r.ok \/ t = << >> THEN SyntaxError
      ELSE IF Head(t) = ","
           THEN ElementsAfter(ParseValue(Tail(t)), Append(acc, r.value))
      ELSE IF Head(t) = "]" THEN Parsed(Arr(Append(acc, r.value)), Tail(t))
      ELSE SyntaxError

\* The key a member starts with.
MemberKey(chars) ==
  LET t == TrimStart(chars)
  IN  IF t # << >> /\ Head(t) = "\""
      THEN ParseStringTail(Tail(t)) ELSE SyntaxError

\* The members acc with one more: a repeated key keeps its place and takes
\* the last value.
WithMember(acc, key, value) ==
  IF \E i \in 1..Len(acc) : acc[i].key = key
  THEN [i \in 1..Len(acc) |->
          IF acc[i].key = key THEN [key |-> key, value |-> value]
          ELSE acc[i]]
  ELSE Append(acc, [key |-> key, value |-> value])

\* The rest of an object whose next member has the key read as k and the
\* value read as r, acc being the members before it.
MembersAfter(k, r, acc) ==
  LET u == TrimStart(r.rest)
  IN  IF ~r.ok \/ u = << >> THEN SyntaxError
      ELSE IF Head(u) = ","
           THEN ParseMembers(Tail(u),
                             WithMember(acc, k.value.string, r.value))
      ELSE IF Head(u) = "}"
           THEN Parsed(Obj(WithMember(acc, k.value.string, r.value)),
                       Tail(u))
      ELSE SyntaxError

\* The rest of an object whose next member has the key read as k.
MembersAfterKey(k, acc) ==
  LET c == TrimStart(k.rest)
  IN  IF k.ok /\ c # << >> /\ Head(c) = ":"
      THEN MembersAfter(k, ParseValue(Tail(c)), acc)
      ELSE SyntaxError

\* The members of an object after its opening brace, in the order the text
\* gives them.
ParseMembers(chars, acc) == MembersAfterKey(MemberKey(chars), acc)

\* What a text is worth when its first value was read as r: that value when
\* only white space follows it.
ValueOfText(r) ==
  IF r.ok /\ TrimStart(r.rest) = << >>
  THEN [threw |-> FALSE, value |-> r.value]
  ELSE [threw |-> TRUE, value |-> Null]

\* JSON.parse(text): the value, or a SyntaxError.
JSONparse(chars) == ValueOfText(ParseValue(chars))

DigitChar(d) == << "0", "1", "2", "3", "4", "5", "6", "7", "8", "9" >>[d + 1]

\* The decimal digits of a natural number.
RECURSIVE NatChars(_)
NatChars(n) ==
  IF n < 10 THEN << DigitChar(n) >>
  ELSE NatChars(n \div 10) \o << DigitChar(n % 10) >>

\* A number as JSON.stringify writes it.
NumberChars(n) ==
  LET m == IF n < 0 THEN 0 - n ELSE n
      h == m % 100
      frac == IF h = 0 THEN << >>
              ELSE IF h % 10 = 0 THEN << ".", DigitChar(h \div 10) >>
              ELSE << ".", DigitChar(h \div 10), DigitChar(h % 10) >>
  IN  (IF n < 0 THEN << "-" >> ELSE << >>) \o NatChars(m \div 100) \o frac

\* The characters with every quote, backslash, line break and tab escaped.
RECURSIVE Escaped(_)
Escaped(chars) ==
  IF Len(chars) = 0 THEN << >>
  ELSE IF Len(chars) = 1
       THEN EscapeOf(chars[1])
  ELSE Escaped(SubSeq(chars, 1, Len(chars) \div 2))
         \o Escaped(SubSeq(chars, Len(chars) \div 2 + 1, Len(chars)))

Quoted(chars) == << "\"" >> \o Escaped(chars) \o << "\"" >>

\* JSON.stringify(value): NaN is written null, a member whose value is
\* undefined is left out, an undefined element is written null.
RECURSIVE ValueChars(_), JoinedChars(_, _)
ValueChars(v) ==
  IF IsNum(v) THEN NumberChars(v.number)
  ELSE IF IsStr(v) THEN Quoted(v.string)
  ELSE IF DOMAIN v = {"boolean"}
       THEN IF v.boolean THEN << "t", "r", "u", "e" >>
            ELSE << "f", "a", "l", "s", "e" >>
  ELSE IF DOMAIN v = {"array"}
       THEN << "[" >>
              \o JoinedChars([i \in 1..Len(v.array) |-> ValueChars(v.array[i])],
                             TRUE)
              \o << "]" >>
  ELSE IF DOMAIN v = {"object"}
       THEN LET kept == SelectSeq(v.object, LAMBDA m : m.value # Undefined)
            IN  << "{" >>
                  \o JoinedChars([i \in 1..Len(kept) |->
                                    Quoted(kept[i].key) \o << ":" >>
                                      \o ValueChars(kept[i].value)], TRUE)
                  \o << "}" >>
  ELSE << "n", "u", "l", "l" >>

\* The texts one after the other with commas between them.
JoinedChars(texts, first) ==
  IF texts = << >> THEN << >>
  ELSE (IF first THEN << >> ELSE << "," >>) \o Head(texts)
         \o JoinedChars(Tail(texts), FALSE)

\* A record of the model as the object it stands for: keys gives, in order,
\* each field and the characters of its name.
ToObject(record, keys) ==
  Obj([i \in 1..Len(keys) |->
         [key |-> keys[i][2], value |-> record[keys[i][1]]]])

\* JSON.stringify of an array of such records.
JSONstringify(list, keys) ==
  ValueChars(Arr([i \in 1..Len(list) |-> ToObject(list[i], keys)]))

(***************************************************************************)
(* clientStorageService.ts: createGoal, createAccount.  App.tsx: the free  *)
(* text of the add-client form turned into goals and accounts.             *)
(***************************************************************************)
\* `goal-${Date.now()}-${random}` and `acc-${Date.now()}-${random}`.
RecordId(prefix, t, r) == Str(prefix \o NatChars(t) \o << "-" >> \o NatChars(r))

createGoal(name, targetAmount, currentAmount, targetDate, t, r) ==
  [id |-> RecordId(<< "g", "o", "a", "l", "-" >>, t, r), name |-> name,
   targetAmount |-> targetAmount, currentAmount |-> currentAmount,
   targetDate |-> targetDate]

createAccount(name, type, balance, t, r) ==
  [id |-> RecordId(<< "a", "c", "c", "-" >>, t, r), name |-> name, type |-> type,
   balance |-> balance]

\* g.name and the like: undefined unless g is an object with that member.
\* Reading a member of null or undefined throws a TypeError.
Member(v, key) ==
  IF DOMAIN v = {"object"} /\ \E i \in 1..Len(v.object) : v.object[i].key = key
  THEN v.object[CHOOSE i \in 1..Len(v.object) : v.object[i].key = key].value
  ELSE Undefined

MemberThrows(v) == v \in {Null, Undefined}

\* new Date().toISOString().split('T')[0]: the clock of the model stays
\* within the first day of the epoch.
Today(t) == Str(<< "1", "9", "7", "0", "-", "0", "1", "-", "0", "1" >>)

\* text.split('\n').filter(l => l.trim())
Lines(text) == SelectSeq(Split(text, "\n"), LAMBDA l : Trim(l) # << >>)

\* line.split('|').map(p => p.trim())
Parts(line) ==
  LET raw == Split(line, "|")
  IN  [i \in 1..Len(raw) |-> Trim(raw[i])]

\* parts[i - 1]: undefined past the end.
Part(parts, i) == IF i <= Len(parts) THEN Str(parts[i]) ELSE Undefined

\* parseFloat(parts[i - 1]?.replace(/[^0-9.]/g, '') || '0')
AmountOf(parts, i) ==
  LET stripped == IF i <= Len(parts)
                  THEN Str(StripNonNumeric(parts[i]))
                  ELSE Undefined
  IN  parseFloat(OrElse(stripped, Str(<< "0" >>)).string)

UpperCase ==
  << "A", "B", "C", "D", "E", "F", "G", "H", "I", "J", "K", "L", "M",
     "N", "O", "P", "Q", "R", "S", "T", "U", "V", "W", "X", "Y", "Z" >>

LowerCase ==
  << "a", "b", "c", "d", "e", "f", "g", "h", "i", "j", "k", "l", "m",
     "n", "o", "p", "q", "r", "s", "t", "u", "v", "w", "x", "y", "z" >>

toLowerCase(chars) ==
  [i \in 1..Len(chars) |->
     IF \E k \in 1..26 : UpperCase[k] = chars[i]
     THEN LowerCase[CHOOSE k \in 1..26 : UpperCase[k] = chars[i]]
     ELSE chars[i]]

AccountTypes ==
  { << "I", "R", "A" >>,
    << "B", "r", "o", "k", "e", "r", "a", "g", "e" >>,
    << "4", "0", "1", "k" >>,
    << "R", "o", "t", "h", " ", "I", "R", "A" >>,
    << "T", "r", "u", "s", "t" >> }

\* typeMap[rawType]: undefined for a key the table lacks.
typeMap(rawType) ==
  CASE rawType = << "i", "r", "a" >> -> Str(<< "I", "R", "A" >>)
    [] rawType = << "t", "r", "a", "d", "i", "t", "i", "o", "n", "a", "l", " ", "i", "r", "a" >> -> Str(<< "I", "R", "A" >>)
    [] rawType = << "r", "o", "t", "h" >> -> Str(<< "R", "o", "t", "h", " ", "I", "R", "A" >>)
    [] rawType = << "r", "o", "t", "h", " ", "i", "r", "a" >> -> Str(<< "R", "o", "t", "h", " ", "I", "R", "A" >>)
    [] rawType = << "4", "0", "1", "k" >> -> Str(<< "4", "0", "1", "k" >>)
    [] rawType = << "4", "0", "1", "(", "k", ")" >> -> Str(<< "4", "0", "1", "k" >>)
    [] rawType = << "b", "r", "o", "k", "e", "r", "a", "g", "e" >> -> Str(<< "B", "r", "o", "k", "e", "r", "a", "g", "e" >>)
    [] rawType = << "t", "r", "u", "s", "t" >> -> Str(<< "T", "r", "u", "s", "t" >>)
    [] OTHER -> Undefined

\* The goal one line of the text gives.
GoalOfLine(line, t, r) ==
  LET parts == Parts(line)
  IN  createGoal(OrElse(Part(parts, 1), Str(<< "G", "o", "a", "l" >>)),
                 AmountOf(parts, 2), AmountOf(parts, 3),
                 OrElse(Part(parts, 4), Today(t)), t, r)

\* The account one line of the text gives.
AccountOfLine(line, t, r) ==
  LET parts == Parts(line)
      rawType == toLowerCase(OrElse(Part(parts, 2), Str(<< "b", "r", "o", "k", "e", "r", "a", "g", "e" >>)).string)
      type == OrElse(typeMap(rawType), Str(<< "B", "r", "o", "k", "e", "r", "a", "g", "e" >>))
  IN  createAccount(OrElse(Part(parts, 1), Str(<< "A", "c", "c", "o", "u", "n", "t" >>)), type,
                    AmountOf(parts, 3), t, r)

\* A goals parser whose map over the parsed array runs outside the try, so
\* that a null element makes the handler throw.
ParseGoalsText_Unguarded(text, t, rs) ==
  IF Trim(text) = << >> THEN [threw |-> FALSE, list |-> << >>]
  ELSE LET parsed == JSONparse(text)
           lines == Lines(text)
       IN  IF parsed.threw
           THEN [threw |-> FALSE,
                 list |-> [i \in 1..Len(lines) |->
                             GoalOfLine(lines[i], t, rs[i])]]
           ELSE IF DOMAIN parsed.value # {"array"}
                THEN [threw |-> FALSE, list |-> << >>]
           ELSE IF \E i \in 1..Len(parsed.value.array) :
                     MemberThrows(parsed.value.array[i])
                THEN [threw |-> TRUE, list |-> << >>]
           ELSE [threw |-> FALSE,
                 list |-> [i \in 1..Len(parsed.value.array) |->
                   LET g == parsed.value.array[i]
                   IN  createGoal(Member(g, << "n", "a", "m", "e" >>),
                                  Member(g, << "t", "a", "r", "g", "e", "t", "A", "m", "o", "u", "n", "t" >>),
                                  Member(g, << "c", "u", "r", "r", "e", "n", "t", "A", "m", "o", "u", "n", "t" >>),
                                  Member(g, << "t", "a", "r", "g", "e", "t", "D", "a", "t", "e" >>), t, rs[i])]]

\* The goals of newClientForm.goalsText; rs gives the random part of the id
\* of each record in turn.
\* try { JSON.parse; if Array.isArray: map createGoal } catch { lines }: a
\* SyntaxError of JSON.parse and a TypeError inside the map both reach the
\* catch; parsed JSON that is no array leaves the list empty.
ParseGoalsText(text, t, rs) ==
  IF Trim(text) = << >> THEN [threw |-> FALSE, list |-> << >>]
  ELSE LET parsed == JSONparse(text)
           lines == Lines(text)
           caught ==
             \/ parsed.threw
             \/ /\ DOMAIN parsed.value = {"array"}
                /\ \E i \in 1..Len(parsed.value.array) :
                     MemberThrows(parsed.value.array[i])
       IN  IF caught
           THEN [threw |-> FALSE,
                 list |-> [i \in 1..Len(lines) |->
                             GoalOfLine(lines[i], t, rs[i])]]
           ELSE IF DOMAIN parsed.value # {"array"}
                THEN [threw |-> FALSE, list |-> << >>]
           ELSE [threw |-> FALSE,
                 list |-> [i \in 1..Len(parsed.value.array) |->
                   LET g == parsed.value.array[i]
                   IN  createGoal(Member(g, << "n", "a", "m", "e" >>),
                                  Member(g, << "t", "a", "r", "g", "e", "t", "A", "m", "o", "u", "n", "t" >>),
                                  Member(g, << "c", "u", "r", "r", "e", "n", "t", "A", "m", "o", "u", "n", "t" >>),
                                  Member(g, << "t", "a", "r", "g", "e", "t", "D", "a", "t", "e" >>), t, rs[i])]]

\* The accounts of newClientForm.accountsText, in the same way.
ParseAccountsText(text, t, rs) ==
  IF Trim(text) = << >> THEN [threw |-> FALSE, list |-> << >>]
  ELSE LET parsed == JSONparse(text)
           lines == Lines(text)
           caught ==
             \/ parsed.threw
             \/ /\ DOMAIN parsed.value = {"array"}
                /\ \E i \in 1..Len(parsed.value.array) :
                     MemberThrows(parsed.value.array[i])
       IN  IF caught
           THEN [threw |-> FALSE,
                 list |-> [i \in 1..Len(lines) |->
                             AccountOfLine(lines[i], t, rs[i])]]
           ELSE IF DOMAIN parsed.value # {"array"}
                THEN [threw |-> FALSE, list |-> << >>]
           ELSE [threw |-> FALSE,
                 list |-> [i \in 1..Len(parsed.value.array) |->
                   LET a == parsed.value.array[i]
                   IN  createAccount(Member(a, << "n", "a", "m", "e" >>), Member(a, << "t", "y", "p", "e" >>),
                                     Member(a, << "b", "a", "l", "a", "n", "c", "e" >>), t, rs[i])]]

(***************************************************************************)
(* openaiService.ts: generateMeetingPrep.                                  *)
(***************************************************************************)
\* The text the engine gives its own TypeError or SyntaxError; never empty.
EngineMessage == Str(<< "e", "n", "g", "i", "n", "e" >>)

MissingKeyMessage ==
  Str(<< "M", "i", "s", "s", "i", "n", "g", " ", "O", "p", "e", "n", "A",
         "I", " ", "A", "P", "I", " ", "k", "e", "y", ".", " ", "S", "e", "t",
         " ", "V", "I", "T", "E", "_", "O", "P", "E", "N", "A", "I", "_", "A",
         "P", "I", "_", "K", "E", "Y", " ", "i", "n", " ", "y", "o", "u", "r",
         " ", ".", "e", "n", "v", " ", "f", "i", "l", "e", "." >>)

NoResponseMessage ==
  Str(<< "N", "o", " ", "r", "e", "s", "p", "o", "n", "s", "e", " ", "f",
         "r", "o", "m", " ", "O", "p", "e", "n", "A", "I" >>)

ParseFailedMessage ==
  Str(<< "F", "a", "i", "l", "e", "d", " ", "t", "o", " ", "p", "a", "r",
         "s", "e", " ", "A", "I", " ", "r", "e", "s", "p", "o", "n", "s", "e",
         ".", " ", "P", "l", "e", "a", "s", "e", " ", "t", "r", "y", " ", "a",
         "g", "a", "i", "n", "." >>)

RequestFailedPrefix ==
  << "A", "P", "I", " ", "r", "e", "q", "u", "e", "s", "t", " ", "f",
         "a", "i", "l", "e", "d", ":", " " >>

\* How a call of an AI service ends: rejected with an error of the given
\* class and message, thrown at the named place of the function ...
Rejected(at, class, message) ==
  [threw |-> TRUE, at |-> at, error |-> class, message |-> message,
   value |-> Null]

\* ... or resolved with a value.
Resolved(value) ==
  [threw |-> FALSE, at |-> "return", error |-> "none",
   message |-> Str(<< >>), value |-> value]

\* Where the function goes on with the content of the reply.
Content(value) ==
  [threw |-> FALSE, at |-> "content", error |-> "none",
   message |-> Str(<< >>), value |-> value]

\* value.toLocaleString() throws a TypeError on null and undefined: the
\* prompt is built from g.currentAmount, g.targetAmount and a.balance.
PromptThrows(goals, accounts) ==
  \/ \E i \in 1..Len(goals) :
       \/ MemberThrows(goals[i].currentAmount)
       \/ MemberThrows(goals[i].targetAmount)
  \/ \E i \in 1..Len(accounts) : MemberThrows(accounts[i].balance)

\* v[0]
First(v) ==
  IF DOMAIN v = {"array"}
  THEN IF v.array = << >> THEN Undefined ELSE v.array[1]
  ELSE IF DOMAIN v = {"string"}
  THEN IF v.string = << >> THEN Undefined ELSE Str(<< v.string[1] >>)
  ELSE Member(v, << "0" >>)

\* v?.key
OptionalMember(v, key) == IF MemberThrows(v) THEN Undefined ELSE Member(v, key)

\* From the settled fetch to the content of the first choice: a rejected
\* fetch and a body that is no JSON reject the call as they are; a status
\* that is not ok rejects it with the provider's message or the status.
ContentOfReply(reply) ==
  IF reply.rejected
  THEN Rejected("fetch", "TypeError", EngineMessage)
  ELSE LET body == JSONparse(reply.body)
           error == IF body.threw THEN Obj(<< >>) ELSE body.value
           data == body.value
           choices == Member(data, << "c", "h", "o", "i", "c", "e", "s" >>)
           content ==
             OptionalMember(OptionalMember(First(choices), << "m", "e", "s", "s", "a", "g", "e" >>),
                            << "c", "o", "n", "t", "e", "n", "t" >>)
       IN  IF ~reply.ok
           THEN IF MemberThrows(error)
                THEN Rejected("status", "TypeError", EngineMessage)
                ELSE Rejected("status", "Error",
                       OrElse(OptionalMember(Member(error, << "e", "r", "r", "o", "r" >>),
                                             << "m", "e", "s", "s", "a", "g", "e" >>),
                              Str(RequestFailedPrefix
                                    \o NatChars(reply.status))))
           ELSE IF body.threw
                THEN Rejected("json", "SyntaxError", EngineMessage)
           ELSE IF MemberThrows(data) \/ MemberThrows(choices)
                THEN Rejected("choices", "TypeError", EngineMessage)
           ELSE IF Falsy(content)
                THEN Rejected("content", "Error", NoResponseMessage)
           ELSE Content(content)

\* The backquote character, which a string of this notation cannot hold.
Backquote == "backquote"

Fence == << Backquote, Backquote, Backquote >>

EndsWith(chars, word) ==
  /\ Len(chars) >= Len(word)
  /\ SubSeq(chars, Len(chars) - Len(word) + 1, Len(chars)) = word

\* Without the first n characters, without the last n characters.
Drop(chars, n) == SubSeq(chars, n + 1, Len(chars))

DropLast(chars, n) == SubSeq(chars, 1, Len(chars) - n)

\* The two replace calls: an opening fence (three backquotes, an optional
\* json, an optional line break) at the start and a closing fence (an
\* optional line break, three backquotes) at the end are removed.
StripFences(chars) ==
  LET a == IF StartsWith(chars, Fence) THEN Drop(chars, 3) ELSE chars
      b == IF StartsWith(chars, Fence) /\ StartsWith(a, << "j", "s", "o", "n" >>)
           THEN Drop(a, 4) ELSE a
      c == IF StartsWith(chars, Fence) /\ StartsWith(b, << "\n" >>)
           THEN Drop(b, 1) ELSE b
      d == IF EndsWith(c, Fence) THEN DropLast(c, 3) ELSE c
  IN  IF EndsWith(c, Fence) /\ EndsWith(d, << "\n" >>)
      THEN DropLast(d, 1) ELSE d

\* String(value) for a number or a boolean.
StringOf(v) ==
  IF IsNum(v) THEN NumberChars(v.number)
  ELSE IF v = Bool(TRUE) THEN << "t", "r", "u", "e" >>
  ELSE << "f", "a", "l", "s", "e" >>

ensureString(value) ==
  IF IsStr(value) THEN value
  ELSE IF value \in {Null, Undefined} THEN Str(<< >>)
  ELSE IF DOMAIN value \in {{"object"}, {"array"}} THEN Str(ValueChars(value))
  ELSE Str(StringOf(value))

ensureStringArray(value) ==
  IF Falsy(value) THEN << >>
  ELSE IF DOMAIN value = {"array"}
       THEN [i \in 1..Len(value.array) |-> ensureString(value.array[i])]
  ELSE << ensureString(value) >>

\* The try block: a content that is no string has no trim, and null has no
\* members; these TypeErrors and the SyntaxError of JSON.parse reach the
\* catch.
MeetingPrepOfContent(content) ==
  LET trimmed == Trim(content.string)
      jsonContent == IF StartsWith(trimmed, Fence)
                     THEN StripFences(trimmed) ELSE trimmed
      parsed == JSONparse(jsonContent)
  IN  IF ~IsStr(content) \/ parsed.threw \/ MemberThrows(parsed.value)
      THEN Rejected("parse", "Error", ParseFailedMessage)
      ELSE Resolved(
             [clientSnapshot |->
                ensureString(Member(parsed.value, << "c", "l", "i", "e", "n", "t", "S", "n", "a", "p", "s", "h", "o", "t" >>)),
              recentContext |->
                ensureString(Member(parsed.value, << "r", "e", "c", "e", "n", "t", "C", "o", "n", "t", "e", "x", "t" >>)),
              keyTopicsToDiscuss |->
                ensureStringArray(Member(parsed.value,
                                         << "k", "e", "y", "T", "o", "p", "i", "c", "s", "T", "o", "D", "i", "s", "c", "u", "s", "s" >>)),
              openActionItems |->
                ensureStringArray(Member(parsed.value, << "o", "p", "e", "n", "A", "c", "t", "i", "o", "n", "I", "t", "e", "m", "s" >>)),
              questionsToAsk |->
                ensureStringArray(Member(parsed.value, << "q", "u", "e", "s", "t", "i", "o", "n", "s", "T", "o", "A", "s", "k" >>)),
              potentialConcerns |->
                ensureString(Member(parsed.value, << "p", "o", "t", "e", "n", "t", "i", "a", "l", "C", "o", "n", "c", "e", "r", "n", "s" >>)),
              relationshipNotes |->
                ensureString(Member(parsed.value, << "r", "e", "l", "a", "t", "i", "o", "n", "s", "h", "i", "p", "N", "o", "t", "e", "s" >>))])

\* generateMeetingPrep up to its fetch: the outcome when it ends before
\* the request, "fetch" as the place it waits at otherwise.
generateMeetingPrepBegin(key, goals, accounts) ==
  IF key = "" THEN Rejected("credential", "Error", MissingKeyMessage)
  ELSE IF PromptThrows(goals, accounts)
       THEN Rejected("prompt", "TypeError", EngineMessage)
  ELSE Content(Undefined)

\* generateMeetingPrep from the settled fetch on.
generateMeetingPrepEnd(reply) ==
  IF ContentOfReply(reply).threw THEN ContentOfReply(reply)
  ELSE MeetingPrepOfContent(ContentOfReply(reply).value)

(***************************************************************************)
(* docIngestService.ts: parseClientFromDocuments.                          *)
(***************************************************************************)
ParseDocsFailedMessage ==
  Str(<< "F", "a", "i", "l", "e", "d", " ", "t", "o", " ", "p", "a", "r",
       "s", "e", " ", "c", "l", "i", "e", "n", "t", " ", "d", "a", "t", "a",
       " ", "f", "r", "o", "m", " ", "d", "o", "c", "u", "m", "e", "n", "t",
       "s", ".", " ", "P", "l", "e", "a", "s", "e", " ", "t", "r", "y", " ",
       "a", "g", "a", "i", "n", "." >>)

\* String(value), as JSON.parse and parseFloat apply it to what is no
\* string.
RECURSIVE StringOfValue(_)
StringOfValue(v) ==
  IF IsStr(v) THEN v.string
  ELSE IF IsNum(v) \/ DOMAIN v = {"boolean"} THEN StringOf(v)
  ELSE IF v = Null THEN << "n", "u", "l", "l" >>
  ELSE IF v = Undefined THEN << "u", "n", "d", "e", "f", "i", "n", "e", "d" >>
  ELSE IF v = NaN THEN << "N", "a", "N" >>
  ELSE IF DOMAIN v = {"array"}
       THEN JoinedChars([i \in 1..Len(v.array) |->
                           IF v.array[i] \in {Null, Undefined} THEN << >>
                           ELSE StringOfValue(v.array[i])], TRUE)
  ELSE << "[", "o", "b", "j", "e", "c", "t", " ", "O", "b", "j", "e", "c", "t", "]" >>

\* typeof v === 'number' ? v : parseFloat(v) || 0
NumberOrZero(v) ==
  IF IsNum(v) THEN v ELSE OrElse(parseFloat(StringOfValue(v)), Num(0))

RiskProfiles ==
  { << "C", "o", "n", "s", "e", "r", "v", "a", "t", "i", "v", "e" >>,
    << "M", "o", "d", "e", "r", "a", "t", "e" >>,
    << "M", "o", "d", "e", "r", "a", "t", "e", "-", "A", "g", "g", "r", "e", "s", "s", "i", "v", "e" >>,
    << "A", "g", "g", "r", "e", "s", "s", "i", "v", "e" >> }

\* A validateRiskProfile that hands any profile on.
validateRiskProfile_AsGiven(profile) == profile

validateRiskProfile(profile) ==
  IF IsStr(profile) /\ profile.string \in RiskProfiles
  THEN profile
  ELSE Str(<< "M", "o", "d", "e", "r", "a", "t", "e" >>)

\* `goal-doc-${idx}-${Date.now()}` and `acc-doc-${idx}-${Date.now()}`
DocRecordId(prefix, idx, t) ==
  Str(prefix \o NatChars(idx) \o << "-" >> \o NatChars(t))

\* Whether the map of validateGoals or validateAccounts throws: it reads
\* members of every element.
ElementThrows(list) ==
  /\ DOMAIN list = {"array"}
  /\ \E i \in 1..Len(list.array) : MemberThrows(list.array[i])

validateGoals(goals, t) ==
  IF DOMAIN goals # {"array"} THEN << >>
  ELSE [i \in 1..Len(goals.array) |->
          LET goal == goals.array[i]
          IN  [id |-> OrElse(Member(goal, << "i", "d" >>),
                             DocRecordId(<< "g", "o", "a", "l", "-", "d", "o", "c", "-" >>, i - 1, t)),
               name |-> OrElse(Member(goal, << "n", "a", "m", "e" >>),
                               Str(<< "U", "n", "n", "a", "m", "e", "d", " ", "G", "o", "a", "l" >>)),
               targetAmount |-> NumberOrZero(Member(goal, << "t", "a", "r", "g", "e", "t", "A", "m", "o", "u", "n", "t" >>)),
               currentAmount |->
                 NumberOrZero(Member(goal, << "c", "u", "r", "r", "e", "n", "t", "A", "m", "o", "u", "n", "t" >>)),
               targetDate |-> OrElse(Member(goal, << "t", "a", "r", "g", "e", "t", "D", "a", "t", "e" >>), Today(t))]]

validateAccounts(accounts, t) ==
  IF DOMAIN accounts # {"array"} THEN << >>
  ELSE [i \in 1..Len(accounts.array) |->
          LET account == accounts.array[i]
              type == Member(account, << "t", "y", "p", "e" >>)
          IN  [id |-> OrElse(Member(account, << "i", "d" >>),
                             DocRecordId(<< "a", "c", "c", "-", "d", "o", "c", "-" >>, i - 1, t)),
               name |-> OrElse(Member(account, << "n", "a", "m", "e" >>),
                               Str(<< "U", "n", "n", "a", "m", "e", "d", " ", "A", "c", "c", "o", "u", "n", "t" >>)),
               type |-> IF IsStr(type) /\ type.string \in AccountTypes
                        THEN type ELSE Str(<< "B", "r", "o", "k", "e", "r", "a", "g", "e" >>),
               balance |-> NumberOrZero(Member(account, << "b", "a", "l", "a", "n", "c", "e" >>))]]

\* The try block: JSON.parse of the content as it is, then the client field
\* by field; the SyntaxError and the TypeError of reading a member of null
\* reach the catch.
ClientOfContent(content, t) ==
  LET parsed == JSONparse(StringOfValue(content))
      p == parsed.value
  IN  IF \/ parsed.threw
         \/ MemberThrows(p)
         \/ ElementThrows(Member(p, << "g", "o", "a", "l", "s" >>))
         \/ ElementThrows(Member(p, << "a", "c", "c", "o", "u", "n", "t", "s" >>))
      THEN Rejected("parse", "Error", ParseDocsFailedMessage)
      ELSE Resolved(
             [id |-> OrElse(Member(p, << "i", "d" >>),
                            Str(<< "c", "l", "i", "e", "n", "t", "-", "d", "o", "c", "-" >> \o NatChars(t))),
              name |-> OrElse(Member(p, << "n", "a", "m", "e" >>), Str(<< "U", "n", "k", "n", "o", "w", "n", " ", "C", "l", "i", "e", "n", "t" >>)),
              aum |-> NumberOrZero(Member(p, << "a", "u", "m" >>)),
              riskProfile |-> validateRiskProfile(Member(p, << "r", "i", "s", "k", "P", "r", "o", "f", "i", "l", "e" >>)),
              advisor |-> OrElse(Member(p, << "a", "d", "v", "i", "s", "o", "r" >>), Str(<< "U", "n", "a", "s", "s", "i", "g", "n", "e", "d" >>)),
              lastContact |-> OrElse(Member(p, << "l", "a", "s", "t", "C", "o", "n", "t", "a", "c", "t" >>), Today(t)),
              goals |-> validateGoals(Member(p, << "g", "o", "a", "l", "s" >>), t),
              accounts |-> validateAccounts(Member(p, << "a", "c", "c", "o", "u", "n", "t", "s" >>), t)])

\* A parseClientFromDocuments that reads the credential only after its
\* request.
parseClientFromDocumentsBegin_FetchFirst(key) == Content(Undefined)

\* parseClientFromDocuments up to its fetch.
parseClientFromDocumentsBegin(key) ==
  IF key = "" THEN Rejected("credential", "Error", MissingKeyMessage)
  ELSE Content(Undefined)

\* parseClientFromDocuments from the settled fetch on.
parseClientFromDocumentsEnd(reply, t) ==
  IF ContentOfReply(reply).threw THEN ContentOfReply(reply)
  ELSE ClientOfContent(ContentOfReply(reply).value, t)

(***************************************************************************)
(* State.                                                                  *)
(***************************************************************************)
VARIABLES
  mockClients,       \* the module-level array mockClients
  clientsKey,        \* localStorage['clarityworks_clients']
  interactionsKey,   \* localStorage['clarityworks_interactions']
  now,               \* Date.now()
  clients,           \* App state: clients
  selectedClientId,  \* App state: selectedClientId
  interactions,      \* App state: interactions
  error,             \* App state: error
  apiKey,            \* import.meta.env.VITE_OPENAI_API_KEY
  pending,           \* calls of the AI services awaiting their fetch
  requests,          \* number of fetch calls issued so far
  meetingPrep,       \* App state: meetingPrep
  isGenerating,      \* App state: isGenerating
  clicks,            \* number of clicks on Generate and Regenerate so far
  shown,             \* what meetingPrep and error were produced for
  showDocOnboarding, \* App state: showDocOnboarding (the dialog's isOpen)
  documents,         \* DocumentClientOnboarding state: documents
  isParsing,         \* DocumentClientOnboarding state: isParsing
  parsedClient,      \* DocumentClientOnboarding state: parsedClient
  formData,          \* DocumentClientOnboarding state: formData
  docError,          \* DocumentClientOnboarding state: error
  tabs,              \* where each browser tab is in its add call
  last               \* the last call made: its name, argument and outcome

vars == << mockClients, clientsKey, interactionsKey, now,
           clients, selectedClientId, interactions, error,
           apiKey, pending, requests,
           meetingPrep, isGenerating, clicks, shown,
           showDocOnboarding, documents, isParsing, parsedClient, formData,
           docError, tabs, last >>

\* What the AI services read and write.
netVars == << apiKey, pending, requests >>

appVars == << clients, selectedClientId, interactions, error >>

\* The meeting prep shown and the generation under way.
prepVars == << meetingPrep, isGenerating, clicks, shown >>

\* The state of the document-onboarding dialog.
docVars == << showDocOnboarding, documents, isParsing, parsedClient,
             formData, docError >>

\* What the store functions and the AI services leave alone.
uiVars == << prepVars, docVars, tabs >>

\* What the handlers of clients and interactions leave alone.
otherUi == << isGenerating, clicks, docVars, tabs >>

\* Where a call's record keeps no content of a key from before the call.
Unrecorded == [tag |-> "unrecorded"]

\* What a call with no argument is recorded with.
NoArgs == [none |-> TRUE]

\* A call's result, kept under the name of the function that returned it, or
\* under "exception" when the call threw, so that results of different
\* functions (a boolean, a client, a list) are never compared to each other.
Returned(op, out) == (IF out.threw THEN "exception" ELSE op) :> out.ret

\* The value a recorded call returned or threw.
Ret(call) == call.ret[CHOOSE k \in DOMAIN call.ret : TRUE]

\* A direct call of one store function.
Call(op, arg, out) ==
  [op |-> op, arg |-> arg, ret |-> Returned(op, out), threw |-> out.threw,
   wrote |-> out.wrote, calls |-> << op >>, before |-> Unrecorded]

\* A run of an App handler and the store functions it called.
Handled(op, arg, threw, calls) ==
  [op |-> op, arg |-> arg, ret |-> op :> "undefined", threw |-> threw,
   wrote |-> FALSE, calls |-> calls, before |-> Unrecorded]

\* The same record, with the content the clients key had before the call.
Before(call, data) == [call EXCEPT !.before = data]

NoCall == [op |-> "none", arg |-> NoArgs, ret |-> "none" :> "none",
           threw |-> FALSE, wrote |-> FALSE, calls |-> << >>,
           before |-> Unrecorded]

\* Nothing is shown for a request yet.
NoShown == [prep |-> NoArgs, error |-> NoArgs]

\* The browser tabs that share the storage.
Tabs == {1, 2}

\* A tab that is in no add call.
IdleTab == [pc |-> "idle"]

\* The error shown was produced while the client of this id was selected.
ErrorFor(id) == [shown EXCEPT !.error = [clientId |-> id]]

\* No meeting prep is shown any more.
PrepCleared == [shown EXCEPT !.prep = NoArgs]

\* The useState initial values of the meeting prep and of the dialog, and
\* tabs that have called nothing yet.
InitUi ==
  /\ meetingPrep = Null
  /\ isGenerating = FALSE
  /\ clicks = 0
  /\ shown = NoShown
  /\ showDocOnboarding = FALSE
  /\ documents = << >>
  /\ isParsing = FALSE
  /\ parsedClient = Null
  /\ formData = Null
  /\ docError = Null
  /\ tabs = [t \in Tabs |-> IdleTab]


\* The messages the App's handlers put into error.
CannotDeleteMessage ==
  Str(<< "C", "a", "n", "n", "o", "t", " ", "d", "e", "l", "e", "t", "e",
         " ", "s", "a", "m", "p", "l", "e", " ", "c", "l", "i", "e", "n",
         "t", "s" >>)

NameAndAumMessage ==
  Str(<< "P", "l", "e", "a", "s", "e", " ", "e", "n", "t", "e", "r", " ",
         "c", "l", "i", "e", "n", "t", " ", "n", "a", "m", "e", " ", "a",
         "n", "d", " ", "A", "U", "M" >>)

\* The store module on a fresh browser profile; the App's state holds its
\* useState initial values (getAllClients(), allClients[0].id, [], null).
InitStore ==
  /\ mockClients = mockClientsData
  /\ clientsKey = Absent
  /\ interactionsKey = Absent
  /\ now = 0
  /\ clients = mockClientsData
  /\ selectedClientId = mockClientsData[1].id
  /\ interactions = << >>
  /\ error = Null
  /\ apiKey = ConfiguredKey
  /\ pending = << >>
  /\ requests = 0
  /\ InitUi
  /\ last = NoCall

\* The App once mounted on a fresh profile: the effect on selectedClientId
\* has run for the first client and seeded its sample interactions.
Init ==
  /\ mockClients = mockClientsData
  /\ clientsKey = Absent
  /\ now = 0
  /\ clients = mockClientsData
  /\ selectedClientId = mockClientsData[1].id
  /\ \E ss \in SuffixTriples :
       /\ interactionsKey =
            initializeSampleInteractions(Absent, mockClientsData[1].id, 0, ss).store
       /\ interactions \in
            { o.ret : o \in getClientInteractions(interactionsKey,
                                                  mockClientsData[1].id) }
  /\ error = Null
  /\ apiKey = ConfiguredKey
  /\ pending = << >>
  /\ requests = 0
  /\ InitUi
  /\ last = NoCall

\* Time passes between two calls.
Tick ==
  /\ now < MaxTime
  /\ now' = now + 1
  /\ last' = Call("tick", NoArgs, Outcome(clientsKey, "none", FALSE, FALSE))
  /\ UNCHANGED << netVars, uiVars, mockClients, clientsKey, interactionsKey, appVars >>

GetAllClients ==
  /\ last' = Call("getAllClients", NoArgs, getAllClients(mockClients, clientsKey))
  /\ UNCHANGED << netVars, uiVars, mockClients, clientsKey, interactionsKey, now, appVars >>

AddClient ==
  \E client \in ClientInputs, s \in RandomSuffixes :
    /\ Len(Items(clientsKey)) < MaxCustom
    /\ LET out == addClient(clientsKey, client, now, s)
       IN  /\ clientsKey' = out.store
           /\ last' = Call("addClient", client, out)
    /\ UNCHANGED << netVars, uiVars, mockClients, interactionsKey, now, appVars >>

UpdateClient ==
  \E id \in ClientIdArgs, updates \in ClientUpdates :
    /\ LET out == updateClient(clientsKey, id, updates)
       IN  /\ clientsKey' = out.store
           /\ last' = Call("updateClient", [id |-> id, updates |-> updates], out)
    /\ UNCHANGED << netVars, uiVars, mockClients, interactionsKey, now, appVars >>

DeleteClient ==
  \E id \in ClientIdArgs :
    /\ LET out == deleteClient(clientsKey, id)
       IN  /\ clientsKey' = out.store
           /\ last' = Before(Call("deleteClient", id, out), clientsKey)
    /\ UNCHANGED << netVars, uiVars, mockClients, interactionsKey, now, appVars >>

GetClientInteractions ==
  \E clientId \in LogClientIds :
    \E out \in getClientInteractions(interactionsKey, clientId) :
      /\ last' = Call("getClientInteractions", clientId, out)
      /\ UNCHANGED << netVars, uiVars, mockClients, clientsKey, interactionsKey, now, appVars >>

AddInteraction ==
  \E interaction \in InteractionInputs, s \in RandomSuffixes :
    /\ Len(Items(interactionsKey)) < MaxLog
    /\ LET out == addInteraction(interactionsKey, interaction, now, s)
       IN  /\ interactionsKey' = out.store
           /\ last' = Call("addInteraction", interaction, out)
    /\ UNCHANGED << netVars, uiVars, mockClients, clientsKey, now, appVars >>

UpdateInteraction ==
  \E id \in InteractionIds, updates \in InteractionUpdates :
    /\ LET out == updateInteraction(interactionsKey, id, updates)
       IN  /\ interactionsKey' = out.store
           /\ last' = Call("updateInteraction",
                           [id |-> id, updates |-> updates], out)
    /\ UNCHANGED << netVars, uiVars, mockClients, clientsKey, now, appVars >>

DeleteInteraction ==
  \E id \in InteractionIds :
    /\ LET out == deleteInteraction(interactionsKey, id)
       IN  /\ interactionsKey' = out.store
           /\ last' = Call("deleteInteraction", id, out)
    /\ UNCHANGED << netVars, uiVars, mockClients, clientsKey, now, appVars >>

InitializeSampleInteractions ==
  \E clientId \in SeedClientIds, ss \in SuffixTriples :
    /\ Len(Items(interactionsKey)) <= MaxSeedOn
    /\ LET out == initializeSampleInteractions(interactionsKey, clientId, now, ss)
       IN  /\ interactionsKey' = out.store
           /\ last' = Call("initializeSampleInteractions", clientId, out)
    /\ UNCHANGED << netVars, uiVars, mockClients, clientsKey, now, appVars >>

\* handleDeleteClient(clientId); confirmed is the answer to confirm().  When
\* the selected id changes, the effect on selectedClientId runs with it.
handleDeleteClient(clientId, confirmed) ==
  IF ~isCustomClient(clientId)
  THEN /\ error' = CannotDeleteMessage
       /\ shown' = ErrorFor(selectedClientId)
       /\ last' = Before(Handled("handleDeleteClient", clientId, FALSE, << >>),
                         clientsKey)
       /\ UNCHANGED << netVars, otherUi, meetingPrep, mockClients, clientsKey,
                       interactionsKey, now, clients, selectedClientId,
                       interactions >>
  ELSE IF ~confirmed
  THEN /\ last' = Before(Handled("handleDeleteClient", clientId, FALSE, << >>),
                         clientsKey)
       /\ UNCHANGED << netVars, uiVars, mockClients, clientsKey, interactionsKey, now, appVars >>
  ELSE LET del == deleteClient(clientsKey, clientId)
           updatedClients == getAllClients(mockClients, del.store)
       IN  IF del.threw
           THEN /\ last' = Before(Handled("handleDeleteClient", clientId, TRUE,
                                          << "deleteClient" >>), clientsKey)
                /\ UNCHANGED << netVars, uiVars, mockClients, clientsKey, interactionsKey, now,
                                appVars >>
           ELSE /\ clientsKey' = del.store
                /\ clients' = updatedClients.ret
                /\ last' = Before(Handled("handleDeleteClient", clientId, FALSE,
                                          << "deleteClient", "getAllClients" >>),
                                  clientsKey)
                /\ IF selectedClientId = clientId /\ Len(updatedClients.ret) > 0
                   THEN \E ss \in SuffixTriples :
                          LET selected == updatedClients.ret[1].id
                              seeded == initializeSampleInteractions(
                                          interactionsKey, selected, now, ss)
                          IN  /\ selectedClientId' = selected
                              /\ interactionsKey' = seeded.store
                              /\ interactions' \in
                                   { o.ret : o \in getClientInteractions(
                                                     seeded.store, selected) }
                              /\ error' = Null
                              /\ meetingPrep' = Null
                              /\ shown' = NoShown
                   ELSE UNCHANGED << selectedClientId, interactionsKey,
                                     interactions, error, meetingPrep, shown >>
                /\ UNCHANGED << netVars, otherUi, mockClients, now >>

\* handleDeleteClient called with any client id.
HandleDeleteClient ==
  \E clientId \in ClientIdArgs, confirmed \in BOOLEAN :
    handleDeleteClient(clientId, confirmed)

\* The delete button, shown for a selected custom client only.
DeleteSelectedClient ==
  /\ \E c \in Range(clients) : c.id = selectedClientId
  /\ isCustomClient(selectedClientId)
  /\ \E confirmed \in BOOLEAN : handleDeleteClient(selectedClientId, confirmed)

\* The client store's exported functions, each called with any argument.
Next ==
  \/ Tick
  \/ AddClient
  \/ UpdateClient
  \/ DeleteClient

Spec == InitStore /\ [][Next]_vars

\* The same within one millisecond, and handleDeleteClient called with any id.
NextDelete ==
  \/ AddClient
  \/ UpdateClient
  \/ DeleteClient
  \/ HandleDeleteClient

SpecDelete == InitStore /\ [][NextDelete]_vars

\* addClient and deleteClient alone.
NextAddDelete ==
  \/ Tick
  \/ AddClient
  \/ DeleteClient

SpecAddDelete == InitStore /\ [][NextAddDelete]_vars

\* The two create operations alone.
Created == Len(Items(clientsKey)) + Len(Items(interactionsKey))

NextCreate ==
  \/ Tick
  \/ (Created < MaxCreated /\ AddClient)
  \/ (Created < MaxCreated /\ AddInteraction)

SpecCreate == InitStore /\ [][NextCreate]_vars

\* The interaction store on its own.
NextLog ==
  \/ Tick
  \/ AddInteraction
  \/ DeleteInteraction

SpecLog == InitStore /\ [][NextLog]_vars

\* Names typed into the add-client form.
FormNames == {"Ann"}

\* Texts typed into the goals box of the form: empty, blank, JSON arrays of
\* objects, of null and of scalars, JSON that is no array, and lines.
GoalTexts ==
  { << >>,
    << " ", " " >>,
    << "[", "{", "\"", "n", "a", "m", "e", "\"", ":", "\"", "T", "r",
       "i", "p", "\"", ",", "\"", "t", "a", "r", "g", "e", "t", "A", "m",
       "o", "u", "n", "t", "\"", ":", "5", "0", "0", "0", ",", "\"", "c",
       "u", "r", "r", "e", "n", "t", "A", "m", "o", "u", "n", "t", "\"",
       ":", "-", "1", "2", ".", "5", ",", "\"", "t", "a", "r", "g", "e",
       "t", "D", "a", "t", "e", "\"", ":", "\"", "2", "0", "3", "0", "-",
       "0", "1", "-", "0", "1", "\"", "}", "]" >>,
    << "[", "n", "u", "l", "l", "]" >>,
    << "[", "1", ",", " ", "\"", "a", "\"", "]" >>,
    << "5" >>,
    << "{", "\"", "n", "a", "m", "e", "\"", ":", "\"", "T", "r", "i",
       "p", "\"", "}" >>,
    << "\"", "x", "\"" >>,
    << "T", "r", "i", "p", " ", "|", " ", "$", "5", ",", "0", "0", "0",
       " ", "|", " ", ".", " ", "|", " ", "2", "0", "3", "0", "-", "0",
       "1", "-", "0", "1" >>,
    << "H", "o", "m", "e", "|", "a", "b", "c", "\n", "\n", "|", "7" >>,
    << "[", "{", "\"", "n", "a", "m", "e", "\"", ":", "\"", "C", "a",
       "r", "\"", ",", "\"", "t", "a", "r", "g", "e", "t", "A", "m", "o",
       "u", "n", "t", "\"", ":", "\"", "l", "o", "t", "s", "\"", "}", "]" >> }

\* Texts typed into the accounts box of the form.
AccountTexts ==
  { << >>,
    << "[", "{", "\"", "n", "a", "m", "e", "\"", ":", "\"", "A", "\"",
       ",", "\"", "t", "y", "p", "e", "\"", ":", "\"", "I", "R", "A", "\"",
       ",", "\"", "b", "a", "l", "a", "n", "c", "e", "\"", ":", "1", "0",
       "0", "}", "]" >>,
    << "[", "{", "\"", "n", "a", "m", "e", "\"", ":", "\"", "A", "\"",
       ",", "\"", "t", "y", "p", "e", "\"", ":", "\"", "G", "o", "l", "d",
       "\"", ",", "\"", "b", "a", "l", "a", "n", "c", "e", "\"", ":", "-",
       "5", "}", "]" >>,
    << "[", "n", "u", "l", "l", ",", " ", "7", "]" >>,
    << "{", "}" >>,
    << "1", "2" >>,
    << "A", "|", "4", "0", "1", "(", "K", ")", "|", "$", "1", ",", "2",
       "0", "0", ".", "5", "0", "\n", "B" >>,
    << "C", " ", "|", " ", "R", "o", "t", "h", " ", "|", " ", "." >>,
    << "D", "|", "g", "o", "l", "d", "|", "5" >> }

\* The random parts of the ids of the records one text gives.
RecordRandoms == {1, 2}

RecordSuffixes == [1..MaxRecords -> RecordRandoms]

\* The client handleAddClient hands to addClient.
FormClient(form, goals, accounts) ==
  [name |-> form.name,
   aum |-> parseFloat(OrElse(Str(StripNonNumeric(form.aum)),
                             Str(<< "0" >>)).string),
   goals |-> goals, accounts |-> accounts]

\* The end of handleAddClient once addClient has answered add: the list is
\* refreshed and the new client selected; when the selection changes, the
\* effect on selectedClientId seeds and loads its interactions.
SelectAdded(form, add, ss) ==
  IF add.threw
  THEN /\ last' = Handled("handleAddClient", form, TRUE, << "addClient" >>)
       /\ UNCHANGED << clientsKey, interactionsKey, appVars, meetingPrep,
                       shown >>
  ELSE /\ clientsKey' = add.store
       /\ clients' = getAllClients(mockClients, add.store).ret
       /\ selectedClientId' = add.ret.id
       /\ last' = Handled("handleAddClient", form, FALSE,
                          << "addClient", "getAllClients" >>)
       /\ IF add.ret.id # selectedClientId
          THEN LET seeded == initializeSampleInteractions(
                               interactionsKey, add.ret.id, now, ss)
               IN  /\ interactionsKey' = seeded.store
                   /\ interactions' \in
                        { o.ret : o \in getClientInteractions(
                                          seeded.store, add.ret.id) }
                   /\ error' = Null
                   /\ meetingPrep' = Null
                   /\ shown' = NoShown
          ELSE UNCHANGED << interactionsKey, interactions, error,
                            meetingPrep, shown >>

\* handleAddClient after the two texts were parsed as goals and accounts.
AddParsed(form, goals, accounts, s, ss) ==
  IF goals.threw \/ accounts.threw
  THEN /\ last' = Handled("handleAddClient", form, TRUE, << >>)
       /\ UNCHANGED << clientsKey, interactionsKey, appVars, meetingPrep,
                       shown >>
  ELSE SelectAdded(form,
                   addClient(clientsKey,
                             FormClient(form, goals.list, accounts.list),
                             now, s),
                   ss)

\* handleAddClient: without a name or an AUM only the error is set.  With
\* them the two texts are parsed, the client is stored, the list is
\* refreshed and the new client selected.
handleAddClient(form, s, ss, rs) ==
  /\ IF form.name = "" \/ form.aum = << >>
     THEN /\ error' = NameAndAumMessage
          /\ shown' = ErrorFor(selectedClientId)
          /\ last' = Handled("handleAddClient", form, FALSE, << >>)
          /\ UNCHANGED << clientsKey, interactionsKey, clients,
                          selectedClientId, interactions, meetingPrep >>
     ELSE AddParsed(form, ParseGoalsText(form.goalsText, now, rs),
                    ParseAccountsText(form.accountsText, now, rs), s, ss)
  /\ UNCHANGED << netVars, otherUi, mockClients, now >>

\* The form submitted with a name and an AUM and both text boxes empty.
HandleAddClient ==
  \E name \in FormNames, s \in RandomSuffixes, ss \in SuffixTriples :
    /\ Len(Items(clientsKey)) < MaxCustom
    /\ handleAddClient([name |-> name, aum |-> << "1" >>,
                        goalsText |-> << >>, accountsText |-> << >>],
                       s, ss, << >>)

\* The form submitted with goals and accounts typed as text.
HandleAddClientTexts ==
  \E name \in FormNames, goalsText \in GoalTexts,
     accountsText \in AccountTexts, s \in RandomSuffixes,
     ss \in SuffixTriples, rs \in RecordSuffixes :
    handleAddClient([name |-> name, aum |-> << "$", "1", ".", "5", "M" >>,
                     goalsText |-> goalsText, accountsText |-> accountsText],
                    s, ss, rs)

\* The member names of a Goal and of an Account, in the order createGoal and
\* createAccount write them.
GoalKeys ==
  << << "id", << "i", "d" >> >>,
     << "name", << "n", "a", "m", "e" >> >>,
     << "targetAmount",
        << "t", "a", "r", "g", "e", "t", "A", "m", "o", "u", "n", "t" >> >>,
     << "currentAmount",
        << "c", "u", "r", "r", "e", "n", "t", "A", "m", "o", "u", "n", "t" >> >>,
     << "targetDate",
        << "t", "a", "r", "g", "e", "t", "D", "a", "t", "e" >> >> >>

AccountKeys ==
  << << "id", << "i", "d" >> >>,
     << "name", << "n", "a", "m", "e" >> >>,
     << "type", << "t", "y", "p", "e" >> >>,
     << "balance", << "b", "a", "l", "a", "n", "c", "e" >> >> >>

\* The form submitted with the goals and the accounts of the first custom
\* client pasted in as JSON arrays.
HandleAddClientCopy ==
  \E name \in FormNames, s \in RandomSuffixes, ss \in SuffixTriples,
     rs \in RecordSuffixes :
    /\ Len(Items(clientsKey)) = 1
    /\ handleAddClient(
         [name |-> name, aum |-> << "1" >>,
          goalsText |-> JSONstringify(Items(clientsKey)[1].goals, GoalKeys),
          accountsText |->
            JSONstringify(Items(clientsKey)[1].accounts, AccountKeys)],
         s, ss, rs)

\* The form submitted without a name.
HandleAddClientNoName ==
  handleAddClient([name |-> "", aum |-> << "1" >>, goalsText |-> << >>,
                   accountsText |-> << >>], 0, << >>, << >>)

(***************************************************************************)
(* Calls of the AI services and the replies of the provider.               *)
(***************************************************************************)
\* Goals and accounts generateMeetingPrep is called with: none, and
\* well-formed ones.
PrepClients ==
  { [goals |-> << >>, accounts |-> << >>],
    [goals |-> << createGoal(Str(<< "T", "r", "i", "p" >>), Num(500000),
                             Num(120050), Str(<< "2", "0", "3", "0", "-", "0", "1", "-", "0", "1" >>), 0, 1) >>,
     accounts |-> << createAccount(Str(<< "A" >>), Str(<< "I", "R", "A" >>),
                                   Num(10000), 0, 1) >>] }

\* What the provider may put into the content of its first choice: the
\* JSON of a meeting prep, that of a client, the first between code fences,
\* text that is no JSON, the JSON null, an empty string, null and a number.
PrepJson ==
  << "{", "\"", "c", "l", "i", "e", "n", "t", "S", "n", "a", "p", "s",
       "h", "o", "t", "\"", ":", "\"", "x", "\"", ",", "\"", "k", "e", "y",
       "T", "o", "p", "i", "c", "s", "T", "o", "D", "i", "s", "c", "u", "s",
       "s", "\"", ":", "\"", "o", "n", "e", "\"", ",", "\"", "o", "p", "e",
       "n", "A", "c", "t", "i", "o", "n", "I", "t", "e", "m", "s", "\"", ":",
       "[", "\"", "a", "\"", ",", "2", "]", ",", "\"", "q", "u", "e", "s",
       "t", "i", "o", "n", "s", "T", "o", "A", "s", "k", "\"", ":", "0", "}" >>

\* The JSON of a client as the provider may extract it from documents.
ClientJson ==
  << "{", "\"", "n", "a", "m", "e", "\"", ":", "\"", "P", "a", "t", "\"",
       ",", "\"", "a", "u", "m", "\"", ":", "\"", "1", "2", "0", "0", "\"",
       ",", "\"", "r", "i", "s", "k", "P", "r", "o", "f", "i", "l", "e", "\"",
       ":", "\"", "R", "i", "s", "k", "y", "\"", ",", "\"", "g", "o", "a",
       "l", "s", "\"", ":", "[", "{", "\"", "n", "a", "m", "e", "\"", ":",
       "\"", "T", "r", "i", "p", "\"", ",", "\"", "t", "a", "r", "g", "e",
       "t", "A", "m", "o", "u", "n", "t", "\"", ":", "-", "5", "}", "]", ",",
       "\"", "a", "c", "c", "o", "u", "n", "t", "s", "\"", ":", "[", "{",
       "\"", "t", "y", "p", "e", "\"", ":", "\"", "G", "o", "l", "d", "\"",
       ",", "\"", "b", "a", "l", "a", "n", "c", "e", "\"", ":", "\"", "1",
       "2", ".", "5", "\"", "}", "]", "}" >>

\* The JSON of a client with an empty id, goals that are no list, an account
\* with an id and an allowed type and an account that is a number.
OddClientJson ==
  << "{", "\"", "i", "d", "\"", ":", "\"", "\"", ",", "\"", "r", "i", "s",
     "k", "P", "r", "o", "f", "i", "l", "e", "\"", ":", "\"", "A", "g", "g",
     "r", "e", "s", "s", "i", "v", "e", "\"", ",", "\"", "g", "o", "a", "l",
     "s", "\"", ":", "\"", "n", "o", "n", "e", "\"", ",", "\"", "a", "c",
     "c", "o", "u", "n", "t", "s", "\"", ":", "[", "{", "\"", "i", "d",
     "\"", ":", "\"", "a", "1", "\"", ",", "\"", "t", "y", "p", "e", "\"",
     ":", "\"", "T", "r", "u", "s", "t", "\"", "}", ",", "7", "]", "}" >>

Contents ==
  { Str(PrepJson),
    Str(ClientJson),
    Str(OddClientJson),
    Str(Fence \o << "j", "s", "o", "n", "\n" >> \o PrepJson \o << "\n" >>
          \o Fence),
    Str(<< "n", "o", "t", " ", "j", "s", "o", "n" >>),
    Str(<< "n", "u", "l", "l" >>),
    Str(<< >>),
    Null,
    Num(500) }

\* The chat-completion envelope around a content.
Envelope(content) ==
  ValueChars(Obj(<< [key |-> << "c", "h", "o", "i", "c", "e", "s" >>,
    value |-> Arr(<< Obj(<< [key |-> << "m", "e", "s", "s", "a", "g", "e" >>,
      value |-> Obj(<< [key |-> << "c", "o", "n", "t", "e", "n", "t" >>,
                        value |-> content] >>)] >>) >>)] >>))

\* Bodies of a reply with status 200: envelopes, an object without choices,
\* no choice at all, null, and text that is no JSON.
OkBodies ==
  { Envelope(content) : content \in Contents }
    \cup { << "{", "}" >>,
           << "{", "\"", "c", "h", "o", "i", "c", "e", "s", "\"", ":", "[", "]", "}" >>,
           << "n", "u", "l", "l" >>,
           << "o", "o", "p", "s" >> }

\* Bodies of a reply with an error status.
ErrorBodies ==
  { << "{", "\"", "e", "r", "r", "o", "r", "\"", ":", "{", "\"", "m", "e",
       "s", "s", "a", "g", "e", "\"", ":", "\"", "R", "a", "t", "e", " ", "l",
       "i", "m", "i", "t", "\"", "}", "}" >>,
    << "{", "}" >>,
    << "n", "u", "l", "l" >>,
    << "o", "o", "p", "s" >> }

\* How the fetch of a call may settle: rejected (no connection), or
\* fulfilled with a response.
Replies ==
  { [rejected |-> TRUE, ok |-> FALSE, status |-> 0, body |-> << >>] }
    \cup { [rejected |-> FALSE, ok |-> TRUE, status |-> 200, body |-> b] :
             b \in OkBodies }
    \cup { [rejected |-> FALSE, ok |-> FALSE, status |-> 429, body |-> b] :
             b \in ErrorBodies }

\* The record of a call of an AI service, with the fetch calls it made.
ServiceCall(op, arg, out, calls) ==
  [Call(op, arg, Outcome(clientsKey, out, out.threw, FALSE))
     EXCEPT !.calls = calls]

\* generateMeetingPrep is called: it ends at once without a credential or
\* when the prompt cannot be built, and issues its request otherwise.
GenerateMeetingPrep ==
  \E c \in PrepClients :
    /\ requests < MaxRequests
    /\ LET out == generateMeetingPrepBegin(apiKey, c.goals, c.accounts)
       IN  IF out.threw
           THEN /\ last' = ServiceCall("generateMeetingPrep", c, out, << >>)
                /\ UNCHANGED << pending, requests >>
           ELSE /\ pending' = Append(pending, [fn |-> "generateMeetingPrep",
                                               args |-> c])
                /\ requests' = requests + 1
                /\ last' = ServiceCall("fetch", c, out, << "fetch" >>)
    /\ UNCHANGED << uiVars, mockClients, clientsKey, interactionsKey, now, appVars,
                    apiKey >>

\* The sequence without its i-th element.
Without(seq, i) == SubSeq(seq, 1, i - 1) \o SubSeq(seq, i + 1, Len(seq))

\* The fetch of a pending generateMeetingPrep settles and the call runs to
\* its end.
SettleMeetingPrep ==
  \E i \in 1..Len(pending), reply \in Replies :
    /\ pending[i].fn = "generateMeetingPrep"
    /\ pending' = Without(pending, i)
    /\ last' = ServiceCall("generateMeetingPrep",
                           [args |-> pending[i].args, reply |-> reply],
                           generateMeetingPrepEnd(reply), << "fetch" >>)
    /\ UNCHANGED << uiVars, mockClients, clientsKey, interactionsKey, now, appVars,
                    apiKey, requests >>

\* The documents handed to parseClientFromDocuments.
DocumentSets == { << << "P", "a", "t" >> >> }

\* parseClientFromDocuments is called: it ends at once without a
\* credential and issues its request otherwise.
ParseClientFromDocuments ==
  \E docs \in DocumentSets :
    /\ requests < MaxRequests
    /\ LET out == parseClientFromDocumentsBegin(apiKey)
       IN  IF out.threw
           THEN /\ last' = ServiceCall("parseClientFromDocuments", docs, out,
                                       << >>)
                /\ UNCHANGED << pending, requests >>
           ELSE /\ pending' = Append(pending,
                                     [fn |-> "parseClientFromDocuments",
                                      args |-> docs])
                /\ requests' = requests + 1
                /\ last' = ServiceCall("fetch", docs, out, << "fetch" >>)
    /\ UNCHANGED << uiVars, mockClients, clientsKey, interactionsKey, now, appVars,
                    apiKey >>

\* The fetch of a pending parseClientFromDocuments settles and the call
\* runs to its end.
SettleParseClient ==
  \E i \in 1..Len(pending), reply \in Replies :
    /\ pending[i].fn = "parseClientFromDocuments"
    /\ pending' = Without(pending, i)
    /\ last' = ServiceCall("parseClientFromDocuments",
                           [args |-> pending[i].args, reply |-> reply],
                           parseClientFromDocumentsEnd(reply, now),
                           << "fetch" >>)
    /\ UNCHANGED << uiVars, mockClients, clientsKey, interactionsKey, now, appVars,
                    apiKey, requests >>

\* A build with or without the credential, before any call.
InitService ==
  /\ mockClients = mockClientsData
  /\ clientsKey = Absent
  /\ interactionsKey = Absent
  /\ now = 0
  /\ clients = mockClientsData
  /\ selectedClientId = mockClientsData[1].id
  /\ interactions = << >>
  /\ error = Null
  /\ apiKey \in {"", ConfiguredKey}
  /\ pending = << >>
  /\ requests = 0
  /\ InitUi
  /\ last = NoCall

NextService ==
  \/ GenerateMeetingPrep
  \/ SettleMeetingPrep
  \/ ParseClientFromDocuments
  \/ SettleParseClient

SpecService == InitService /\ [][NextService]_vars

\* The add-client form used on a store without custom clients.
NextParse ==
  \/ (Items(clientsKey) = << >> /\ HandleAddClientTexts)
  \/ (Items(clientsKey) = << >> /\ HandleAddClientNoName)

SpecParse == Init /\ [][NextParse]_vars

\* A first client made from typed text, then a second one from the JSON of
\* the first one's goals and accounts.
NextRoundTrip ==
  \/ (Items(clientsKey) = << >> /\ HandleAddClientTexts)
  \/ HandleAddClientCopy

SpecRoundTrip == Init /\ [][NextRoundTrip]_vars

\* What the add-interaction form holds when it is submitted: a title, notes
\* and the date the form starts with.
FormInteractions == { [date |-> "2024-11-15", title |-> "Note"] }

\* handleAddInteraction for a selected client that shows no interaction yet:
\* the form's record is stored for it and the shown list is read again.
HandleAddInteraction ==
  \E form \in FormInteractions, s \in RandomSuffixes :
    /\ interactions = << >>
    /\ LET input == [clientId |-> selectedClientId, date |-> form.date,
                     title |-> form.title]
           add == addInteraction(interactionsKey, input, now, s)
       IN  IF add.threw
           THEN /\ last' = Handled("handleAddInteraction", input, TRUE,
                                   << "addInteraction" >>)
                /\ UNCHANGED << interactionsKey, interactions, meetingPrep,
                                shown >>
           ELSE /\ interactionsKey' = add.store
                /\ interactions' \in
                     { o.ret : o \in getClientInteractions(add.store,
                                                           selectedClientId) }
                /\ meetingPrep' = Null
                /\ shown' = PrepCleared
                /\ last' = Handled("handleAddInteraction", input, FALSE,
                                   << "addInteraction", "getClientInteractions" >>)
    /\ UNCHANGED << netVars, otherUi, mockClients, clientsKey, now, clients,
                    selectedClientId, error >>

\* handleDeleteInteraction on the interaction shown first, confirmed or not.
HandleDeleteInteraction ==
  \E confirmed \in BOOLEAN :
    LET id == interactions[1].id
        del == deleteInteraction(interactionsKey, id)
    IN  /\ Len(interactions) > 0
        /\ IF ~confirmed
           THEN /\ last' = Handled("handleDeleteInteraction", id, FALSE, << >>)
                /\ UNCHANGED << interactionsKey, interactions, meetingPrep,
                                shown >>
           ELSE IF del.threw
           THEN /\ last' = Handled("handleDeleteInteraction", id, TRUE,
                                   << "deleteInteraction" >>)
                /\ UNCHANGED << interactionsKey, interactions, meetingPrep,
                                shown >>
           ELSE /\ interactionsKey' = del.store
                /\ interactions' \in
                     { o.ret : o \in getClientInteractions(del.store,
                                                           selectedClientId) }
                /\ meetingPrep' = Null
                /\ shown' = PrepCleared
                /\ last' = Handled("handleDeleteInteraction", id, FALSE,
                                   << "deleteInteraction",
                                      "getClientInteractions" >>)
        /\ UNCHANGED << netVars, otherUi, mockClients, clientsKey, now,
                        clients, selectedClientId, error >>

\* Seeding called for any client, next to interactions the advisor adds.
NextSeed ==
  \/ AddInteraction
  \/ InitializeSampleInteractions

SpecSeed == InitStore /\ [][NextSeed]_vars

\* The mounted App within one millisecond: clients added and deleted, and
\* interactions of the selected client added and deleted in between.
NextCascade ==
  \/ HandleAddInteraction
  \/ HandleDeleteInteraction
  \/ (Len(Items(interactionsKey)) <= MaxSeedOn /\ HandleAddClient)
  \/ DeleteSelectedClient

SpecCascade == Init /\ [][NextCascade]_vars

(***************************************************************************)
(* The App's meeting prep: the selection, the Generate and Regenerate      *)
(* buttons and the completion of generateMeetingPrep.                      *)
(***************************************************************************)
\* selectedClient: the client of the selected id, undefined without one.
SelectedClients == { c \in Range(clients) : c.id = selectedClientId }

\* The goals and accounts of a client; those of the built-in clients are
\* well-formed and kept out of the client records here.
GoalsOf(client) ==
  IF "goals" \in DOMAIN client THEN client.goals ELSE << >>

AccountsOf(client) ==
  IF "accounts" \in DOMAIN client THEN client.accounts ELSE << >>

\* The effect on selectedClientId for a newly selected id: its samples are
\* seeded, its interactions loaded, the meeting prep and the error cleared.
SelectionEffect(id, ss) ==
  LET seeded == initializeSampleInteractions(interactionsKey, id, now, ss)
  IN  /\ interactionsKey' = seeded.store
      /\ interactions' \in
           { o.ret : o \in getClientInteractions(seeded.store, id) }
      /\ meetingPrep' = Null
      /\ error' = Null
      /\ shown' = NoShown

\* The suffixes the seeding draws when the advisor selects a client.
SelectSuffixes == { << 5, 6, 7 >> }

\* The client selector is set to another client of the list.
SelectClient ==
  \E c \in Range(clients), ss \in SelectSuffixes :
    /\ c.id # selectedClientId
    /\ Len(Items(interactionsKey)) <= MaxSeedOn
    /\ selectedClientId' = c.id
    /\ SelectionEffect(c.id, ss)
    /\ last' = Handled("setSelectedClientId", c.id, FALSE,
                       << "initializeSampleInteractions",
                          "getClientInteractions" >>)
    /\ UNCHANGED << netVars, otherUi, mockClients, clientsKey, now, clients >>

\* A Generate button that is never disabled.
GenerateDisabled_Never == FALSE

\* disabled={isGenerating} on Generate and on Regenerate.
GenerateDisabled ==
  isGenerating

\* A handler without its finally block: isGenerating keeps its value when
\* the call failed.
GeneratingAfter_NoFinally(out) == out.threw

\* finally { setIsGenerating(false) }
GeneratingAfter(out) ==
  FALSE

\* What generateMeetingPrep is called with: the selected client and the
\* interactions shown when the button was clicked.
PrepRequest(client) ==
  [clientId |-> client.id, interactions |-> interactions,
   goals |-> GoalsOf(client), accounts |-> AccountsOf(client)]

\* The end of handleGenerateMeetingPrep, with the outcome of the call made
\* for request: the result is shown or the message of the error is, and
\* isGenerating is reset.
GenerationEnds(request, out) ==
  /\ IF out.threw
     THEN /\ error' = out.message
          /\ shown' = ErrorFor(request.clientId)
          /\ UNCHANGED meetingPrep
     ELSE /\ meetingPrep' = out.value
          /\ shown' = [shown EXCEPT !.prep = [clientId |-> request.clientId,
                                              interactions |->
                                                request.interactions]]
          /\ UNCHANGED error
  /\ isGenerating' = GeneratingAfter(out)

\* handleGenerateMeetingPrep up to the await: a call that fails before its
\* fetch is caught in the same turn, any other leaves its request pending
\* with isGenerating set and the error cleared.
GenerationStarts(request, out) ==
  IF out.threw
  THEN /\ GenerationEnds(request, out)
       /\ last' = Handled("handleGenerateMeetingPrep", request, TRUE,
                          << "generateMeetingPrep" >>)
       /\ UNCHANGED << pending, requests >>
  ELSE /\ isGenerating' = TRUE
       /\ error' = Null
       /\ shown' = [shown EXCEPT !.error = NoArgs]
       /\ pending' = Append(pending, [fn |-> "handleGenerateMeetingPrep",
                                      args |-> request])
       /\ requests' = requests + 1
       /\ last' = Handled("handleGenerateMeetingPrep", request, FALSE,
                          << "generateMeetingPrep", "fetch" >>)
       /\ UNCHANGED meetingPrep

\* A click on Generate or Regenerate while the button is enabled.
HandleGenerateMeetingPrep ==
  /\ ~GenerateDisabled
  /\ clicks < MaxClicks
  /\ clicks' = clicks + 1
  /\ IF SelectedClients = {}
     THEN /\ last' = Handled("handleGenerateMeetingPrep", NoArgs, FALSE,
                             << >>)
          /\ UNCHANGED << pending, requests, meetingPrep, isGenerating,
                          shown, error >>
     ELSE \E client \in SelectedClients :
            GenerationStarts(PrepRequest(client),
                             generateMeetingPrepBegin(apiKey, GoalsOf(client),
                                                      AccountsOf(client)))
  /\ UNCHANGED << apiKey, docVars, tabs, mockClients, clientsKey,
                  interactionsKey, now, clients, selectedClientId,
                  interactions >>

\* How the fetch of a generation may settle: rejected, fulfilled with a
\* meeting prep, with an object without choices, or with an error status.
PrepReplies ==
  { [rejected |-> TRUE, ok |-> FALSE, status |-> 0, body |-> << >>],
    [rejected |-> FALSE, ok |-> TRUE, status |-> 200,
     body |-> Envelope(Str(PrepJson))],
    [rejected |-> FALSE, ok |-> TRUE, status |-> 200,
     body |-> << "{", "}" >>],
    [rejected |-> FALSE, ok |-> FALSE, status |-> 429,
     body |-> << "{", "}" >>] }

\* The fetch of a pending generation settles and the handler runs to its
\* end.
CompleteMeetingPrep ==
  \E i \in 1..Len(pending), reply \in PrepReplies :
    /\ pending[i].fn = "handleGenerateMeetingPrep"
    /\ pending' = Without(pending, i)
    /\ GenerationEnds(pending[i].args, generateMeetingPrepEnd(reply))
    /\ last' = Handled("completeMeetingPrep", pending[i].args,
                       generateMeetingPrepEnd(reply).threw,
                       << "generateMeetingPrep" >>)
    /\ UNCHANGED << apiKey, requests, clicks, docVars, tabs, mockClients,
                    clientsKey, interactionsKey, now, clients,
                    selectedClientId, interactions >>

\* The mounted App of a build with or without the credential.
InitPrep ==
  /\ mockClients = mockClientsData
  /\ clientsKey = Absent
  /\ now = 0
  /\ clients = mockClientsData
  /\ selectedClientId = mockClientsData[1].id
  /\ interactionsKey =
       initializeSampleInteractions(Absent, mockClientsData[1].id, 0,
                                    << 2, 3, 4 >>).store
  /\ interactions \in
       { o.ret : o \in getClientInteractions(interactionsKey,
                                             mockClientsData[1].id) }
  /\ error = Null
  /\ apiKey \in {"", ConfiguredKey}
  /\ pending = << >>
  /\ requests = 0
  /\ InitUi
  /\ last = NoCall

\* The advisor selects clients, adds and deletes interactions and clicks
\* Generate or Regenerate, while requests complete in between.
NextPrep ==
  \/ SelectClient
  \/ HandleAddInteraction
  \/ HandleDeleteInteraction
  \/ HandleGenerateMeetingPrep
  \/ CompleteMeetingPrep

SpecPrep == InitPrep /\ [][NextPrep]_vars

\* The same where every request completes at some time.
SpecPrepFair == SpecPrep /\ WF_vars(CompleteMeetingPrep)

\* Storage contents a browser profile may hold when the store is first read.
StoredClients ==
  { [tag |-> t] : t \in {"absent", "empty", "text", "null", "object", "number"} }
    \cup { Stringify(<< >>),
           Stringify(<< [id |-> MkId(CUSTOM_PREFIX, 0, 0), name |-> "Ann"] >>) }

StoredInteractions ==
  { [tag |-> t] : t \in {"absent", "empty", "text", "null", "object", "number"} }
    \cup { Stringify(<< >>),
           Stringify(<< [id |-> MkId("interaction-", 0, 0),
                         clientId |-> MkId("client-", 1, 0),
                         date |-> "2024-11-15", title |-> "Note",
                         createdAt |-> 0] >>) }

InitCorrupt ==
  /\ mockClients = mockClientsData
  /\ clientsKey \in StoredClients
  /\ interactionsKey \in StoredInteractions
  /\ now = 0
  /\ clients = mockClientsData
  /\ selectedClientId = mockClientsData[1].id
  /\ interactions = << >>
  /\ error = Null
  /\ apiKey = ConfiguredKey
  /\ pending = << >>
  /\ requests = 0
  /\ InitUi
  /\ last = NoCall

\* The two read functions over whatever the keys hold.
NextRead ==
  \/ GetAllClients
  \/ GetClientInteractions

SpecCorrupt == InitCorrupt /\ [][NextRead]_vars

(***************************************************************************)
(* Properties.                                                             *)
(***************************************************************************)
AllClientsNow == getAllClients(mockClients, clientsKey)

WithoutId(seq, id) == SelectSeq(seq, LAMBDA x : x.id # id)

\* C1: after any client-store operations the built-in clients are unchanged
\* in id, data and order, and every record written under the clients key is
\* a custom client: none carries an id that is not custom, a built-in id
\* included.
C1_OnlyCustomsStored ==
  /\ mockClients = mockClientsData
  /\ SubSeq(AllClientsNow.ret, 1, Len(mockClientsData)) = mockClientsData
  /\ \A c \in Range(Items(clientsKey)) : isCustomClient(c.id)

\* C2: over addClient and deleteClient calls, getAllClients is the built-in
\* clients in their fixed order followed by the stored custom clients, where
\* addClient puts the new client last and deleteClient takes out the clients
\* of the id and keeps the others in order: the custom part is the clients
\* added and not deleted, in the order they were added.
C2_BuiltInsThenCustomsInOrder ==
  [][ LET before == Items(clientsKey)
          after == Items(clientsKey')
          all == getAllClients(mockClients', clientsKey')
      IN  /\ ~all.threw
          /\ all.ret = mockClientsData \o after
          /\ (last'.op = "addClient") => (after = Append(before, Ret(last')))
          /\ (last'.op = "deleteClient") => (after = WithoutId(before, last'.arg))
          /\ (last'.op \notin {"addClient", "deleteClient"}) => (after = before)
    ]_vars

C2_Witness ==
  /\ last.op = "deleteClient"
  /\ Ret(last) = TRUE
  /\ Len(Items(clientsKey)) >= 1

\* C3: a client created by addClient, also from a record that already
\* carries an id (the document-onboarding path), is returned and stored last
\* with an id for which isCustomClient is true and with the caller's data;
\* the built-in list is as it was.
C3_CreatedClientIsCustom ==
  (last.op = "addClient") =>
    /\ ~last.threw
    /\ isCustomClient(Ret(last).id)
    /\ Ret(last).name = last.arg.name
    /\ Len(Items(clientsKey)) > 0
    /\ Items(clientsKey)[Len(Items(clientsKey))] = Ret(last)
    /\ \A c \in Range(Items(clientsKey)) : isCustomClient(c.id)
    /\ mockClients = mockClientsData
    /\ SubSeq(AllClientsNow.ret, 1, Len(mockClientsData)) = mockClientsData

C3_Witness ==
  /\ last.op = "addClient"
  /\ "id" \in DOMAIN last.arg
  /\ ~isCustomClient(last.arg.id)
  /\ Len(Items(clientsKey)) = 2

PairwiseDistinctIds(seq) ==
  \A i, j \in 1..Len(seq) : (i # j) => (seq[i].id # seq[j].id)

\* C4: after any addClient calls the ids of the clients getAllClients
\* returns are pairwise distinct (so distinct from the built-in ids too), and
\* after any addInteraction calls the ids in the log are pairwise distinct.
C4_IdsPairwiseDistinct ==
  /\ PairwiseDistinctIds(AllClientsNow.ret)
  /\ PairwiseDistinctIds(Items(interactionsKey))

\* C5: deleteClient with a built-in id returns false, throws nothing, writes
\* nothing and leaves getAllClients as it was; handleDeleteClient with a
\* built-in id sets the error message and does not call deleteClient.
C5_BuiltInDeleteRejected ==
  /\ (last.op = "deleteClient" /\ last.arg \in BuiltInIds) =>
       /\ ~last.threw
       /\ Ret(last) = FALSE
       /\ ~last.wrote
       /\ clientsKey = last.before
       /\ AllClientsNow = getAllClients(mockClients, last.before)
  /\ (last.op = "handleDeleteClient" /\ last.arg \in BuiltInIds) =>
       /\ error = CannotDeleteMessage
       /\ "deleteClient" \notin Range(last.calls)
       /\ clientsKey = last.before

\* C6: deleteClient(id) returns true exactly when a stored custom client has
\* the id; then getAllClients holds no client of that id and every other
\* client as before, in order; when it returns false nothing is written.
C6_DeleteClientExact ==
  (last.op = "deleteClient") =>
    LET id == last.arg
        allBefore == getAllClients(mockClients, last.before).ret
        allAfter == AllClientsNow.ret
    IN  /\ ~last.threw
        /\ (Ret(last) = TRUE) <=> (\E c \in Range(Items(last.before)) : c.id = id)
        /\ (Ret(last) = TRUE) =>
             /\ \A c \in Range(allAfter) : c.id # id
             /\ allAfter = WithoutId(allBefore, id)
        /\ (Ret(last) = FALSE) =>
             /\ ~last.wrote
             /\ clientsKey = last.before

\* C7: whatever a key holds that is no array (nothing, text that does not
\* parse, JSON null, an object, a number), reading throws nothing:
\* getAllClients returns exactly the built-in clients and
\* getClientInteractions returns the empty list.
C7_ReadsFailSoft ==
  /\ (last.op = "getAllClients" /\ clientsKey.tag # "array") =>
       (~last.threw /\ Ret(last) = mockClientsData)
  /\ (last.op = "getClientInteractions" /\ interactionsKey.tag # "array") =>
       (~last.threw /\ Ret(last) = << >>)

\* s is a reordering of t.
IsReordering(s, t) ==
  /\ Len(s) = Len(t)
  /\ \E p \in [1..Len(t) -> 1..Len(t)] :
       /\ \A a, b \in 1..Len(t) : (a # b) => (p[a] # p[b])
       /\ \A i \in 1..Len(t) : s[i] = t[p[i]]

BothDated(a, b) == ~IsInvalidDate(a.date) /\ ~IsInvalidDate(b.date)

\* C8: for every client id, after any addInteraction and deleteInteraction
\* calls, getClientInteractions returns exactly the stored interactions of
\* that client, no later event date before an earlier one, and an interaction
\* dated earlier than all the others of the client last.
C8_NewestFirst ==
  \A clientId \in LogClientIds :
    \A out \in getClientInteractions(interactionsKey, clientId) :
      /\ ~out.threw
      /\ IsReordering(out.ret,
                      SelectSeq(Items(interactionsKey),
                                LAMBDA i : i.clientId = clientId))
      /\ \A i, j \in 1..Len(out.ret) :
           (i < j /\ BothDated(out.ret[i], out.ret[j])) =>
             (getTime(out.ret[i].date) >= getTime(out.ret[j].date))
      /\ \A i \in 1..Len(out.ret) :
           (\A j \in 1..Len(out.ret) :
              (j # i) => /\ BothDated(out.ret[i], out.ret[j])
                         /\ getTime(out.ret[i].date) < getTime(out.ret[j].date))
             => (i = Len(out.ret))

\* C9: addInteraction puts exactly one record at the end of the stored log,
\* the caller's fields plus id and createdAt, returns that record and leaves
\* the records stored before as they were, in their order.
C9_AddInteractionAppends ==
  [][ (last'.op = "addInteraction") =>
        /\ ~last'.threw
        /\ last'.wrote
        /\ Items(interactionsKey') = Append(Items(interactionsKey), Ret(last'))
        /\ DOMAIN Ret(last') = (DOMAIN last'.arg) \cup {"id", "createdAt"}
        /\ \A f \in DOMAIN last'.arg : Ret(last')[f] = last'.arg[f]
        /\ Ret(last').id = MkId("interaction-", now, Ret(last').id.r)
        /\ Ret(last').createdAt = now
    ]_vars

C9_Witness ==
  /\ last.op = "addInteraction"
  /\ Len(Items(interactionsKey)) = 3
  /\ Items(interactionsKey)[1].clientId # Items(interactionsKey)[3].clientId

\* C10: deleteInteraction(id) returns true exactly when a stored interaction
\* has the id; then the records of that id are gone and all the others are
\* left as they were, in order; when it returns false nothing is written and
\* the log is as it was.
C10_DeleteInteractionExact ==
  [][ (last'.op = "deleteInteraction") =>
        LET id == last'.arg
            all == Items(interactionsKey)
        IN  /\ ~last'.threw
            /\ (Ret(last') = TRUE) <=> (\E i \in Range(all) : i.id = id)
            /\ (Ret(last') = TRUE) =>
                 /\ last'.wrote
                 /\ Items(interactionsKey') = WithoutId(all, id)
            /\ (Ret(last') = FALSE) =>
                 /\ ~last'.wrote
                 /\ interactionsKey' = interactionsKey
    ]_vars

C10_Witness ==
  /\ last.op = "deleteInteraction"
  /\ Ret(last) = TRUE
  /\ Len(Items(interactionsKey)) = 2
  /\ Items(interactionsKey)[1].id # Items(interactionsKey)[2].id

\* The records of a log that are interaction (clientId, date, title) of a
\* sample history.
SampleCopies(log, sample) ==
  { i \in 1..Len(log) : /\ log[i].clientId = sample.clientId
                        /\ log[i].date = sample.date
                        /\ log[i].title = sample.title }

\* C11: initializeSampleInteractions called twice in a row for the same
\* client id, built-in or custom, leaves the log after the second call as it
\* was after the first, and no sample interaction of that id's history is
\* stored twice.
C11_SeedIdempotent ==
  [][ ( /\ last.op = "initializeSampleInteractions"
        /\ last'.op = "initializeSampleInteractions"
        /\ last'.arg = last.arg ) =>
        /\ ~last'.threw
        /\ interactionsKey' = interactionsKey
        /\ \A k \in 1..Len(sampleInteractions(last'.arg)) :
             Cardinality(SampleCopies(Items(interactionsKey'),
                                      sampleInteractions(last'.arg)[k])) <= 1
    ]_vars

\* C12: initializeSampleInteractions(clientId) only appends interactions of
\* its argument, and only when the argument is a built-in id without
\* interactions; for a custom id, or an id that has an interaction, the whole
\* log stays as it was.
C12_SeedOnlyOwnBuiltIn ==
  [][ (last'.op = "initializeSampleInteractions") =>
        LET clientId == last'.arg
            log == Items(interactionsKey)
            after == Items(interactionsKey')
            hasOne == \E i \in Range(log) : i.clientId = clientId
        IN  /\ ~last'.threw
            /\ Len(after) >= Len(log)
            /\ SubSeq(after, 1, Len(log)) = log
            /\ \A k \in (Len(log) + 1)..Len(after) : after[k].clientId = clientId
            /\ (after # log) => (clientId \in BuiltInIds /\ ~hasOne)
            /\ (isCustomClient(clientId) \/ hasOne) =>
                 (interactionsKey' = interactionsKey)
    ]_vars

\* What the possible outcomes of a call return or throw.
Returns(outcomes) == { << o.threw, o.ret >> : o \in outcomes }

IsList(v) == DOMAIN v = 1..Len(v)

\* The client the submitted form created: the last one stored.
CreatedClient == Items(clientsKey)[Len(Items(clientsKey))]

\* C14: whatever the two text boxes hold (nothing, blanks, a JSON array of
\* objects, a JSON array with null or scalar elements, JSON that is no
\* array, lines with pipes), handleAddClient with a name and an AUM does not
\* throw: both texts give a list, possibly empty, and the client is created
\* with them and selected.
C14_FreeTextNeverFails ==
  (last.op = "handleAddClient" /\ last.arg.name # "") =>
    /\ ~last.threw
    /\ "addClient" \in Range(last.calls)
    /\ Len(Items(clientsKey)) = 1
    /\ IsList(CreatedClient.goals)
    /\ IsList(CreatedClient.accounts)
    /\ selectedClientId = CreatedClient.id
    /\ \E i \in 1..Len(clients) : clients[i] = CreatedClient

\* A client was created from a goals text that is a JSON array holding null.
C14_Witness ==
  /\ last.op = "handleAddClient"
  /\ last.arg.goalsText = << "[", "n", "u", "l", "l", "]" >>
  /\ Len(Items(clientsKey)) = 1
  /\ Len(CreatedClient.goals) = 1


\* Whether the text, parsed as JSON, is an array.
IsJsonArray(text) ==
  /\ ~JSONparse(text).threw
  /\ DOMAIN JSONparse(text).value = {"array"}

\* The name the line format gives the record of a line.
LineName(line, placeholder) == OrElse(Part(Parts(line), 1), Str(placeholder))

\* Whether the list holds one record per non-empty line of the text, each
\* named after the first field of its line.
OneRecordPerLine(list, text, placeholder) ==
  /\ Len(list) = Len(Lines(text))
  /\ \A i \in 1..Len(list) :
       list[i].name = LineName(Lines(text)[i], placeholder)

\* C15: a text that does not parse as JSON, or parses as JSON that is no
\* array (a number, a string, an object), is read in the line format: the
\* created client has one goal, and one account, per non-empty line.
C15_NonArrayReadAsLines ==
  (last.op = "handleAddClient" /\ last.arg.name # "" /\ ~last.threw) =>
    /\ ~IsJsonArray(last.arg.goalsText) =>
         OneRecordPerLine(CreatedClient.goals, last.arg.goalsText,
                          << "G", "o", "a", "l" >>)
    /\ ~IsJsonArray(last.arg.accountsText) =>
         OneRecordPerLine(CreatedClient.accounts, last.arg.accountsText,
                          << "A", "c", "c", "o", "u", "n", "t" >>)


\* C16: every account of a client created from the form, whether its text
\* was a JSON array or lines, has one of the five account types.
C16_AccountTypeValid ==
  (last.op = "handleAddClient" /\ last.arg.name # "" /\ ~last.threw) =>
    \A i \in 1..Len(CreatedClient.accounts) :
      /\ IsStr(CreatedClient.accounts[i].type)
      /\ CreatedClient.accounts[i].type.string \in AccountTypes

\* The same for the texts read in the line format only: there the synonym
\* table decides the type.
LineAccountTypeValid ==
  (/\ last.op = "handleAddClient" /\ last.arg.name # "" /\ ~last.threw
   /\ JSONparse(last.arg.accountsText).threw) =>
    \A i \in 1..Len(CreatedClient.accounts) :
      /\ IsStr(CreatedClient.accounts[i].type)
      /\ CreatedClient.accounts[i].type.string \in AccountTypes


\* A number that is not negative (NaN and undefined are no such number).
NonNegative(v) == IsNum(v) /\ v.number >= 0

\* C17: every goal and every account of every stored client has amounts
\* that are numbers and not negative; a field that cannot be parsed counts
\* as 0.
C17_AmountsNonNegative ==
  \A c \in Range(Items(clientsKey)) :
    /\ \A i \in 1..Len(c.goals) :
         /\ NonNegative(c.goals[i].targetAmount)
         /\ NonNegative(c.goals[i].currentAmount)
    /\ \A i \in 1..Len(c.accounts) : NonNegative(c.accounts[i].balance)


\* Whether two goal lists agree in length, order and every field but the id.
SameGoals(a, b) ==
  /\ Len(a) = Len(b)
  /\ \A i \in 1..Len(a) :
       /\ a[i].name = b[i].name
       /\ a[i].targetAmount = b[i].targetAmount
       /\ a[i].currentAmount = b[i].currentAmount
       /\ a[i].targetDate = b[i].targetDate

\* Whether two account lists agree in length, order and every field but the
\* id.
SameAccounts(a, b) ==
  /\ Len(a) = Len(b)
  /\ \A i \in 1..Len(a) :
       /\ a[i].name = b[i].name
       /\ a[i].type = b[i].type
       /\ a[i].balance = b[i].balance

\* The second client was made from the JSON of the first one's lists.
CopiedFromFirst ==
  /\ last.op = "handleAddClient"
  /\ ~last.threw
  /\ Len(Items(clientsKey)) = 2

NoNaN(c) ==
  /\ \A i \in 1..Len(c.goals) :
       NaN \notin {c.goals[i].targetAmount, c.goals[i].currentAmount}
  /\ \A i \in 1..Len(c.accounts) : c.accounts[i].balance # NaN

\* The round trip of the lists that hold no NaN.
RoundTripWithoutNaN ==
  (CopiedFromFirst /\ NoNaN(Items(clientsKey)[1])) =>
    /\ SameGoals(Items(clientsKey)[2].goals, Items(clientsKey)[1].goals)
    /\ SameAccounts(Items(clientsKey)[2].accounts,
                    Items(clientsKey)[1].accounts)


(***************************************************************************)
(* The AI services.                                                        *)
(***************************************************************************)
\* How the last call of an AI service ended.
Ended == Ret(last)

\* C20: every call of generateMeetingPrep ends in one of four ways: the
\* configuration error, an upstream error (the request failed or its
\* response was not ok), the parse error of the content, or a MeetingPrep;
\* no other error comes out of it, whatever a response that is ok holds.
C20_FourOutcomes ==
  last.op = "generateMeetingPrep" =>
    \/ (Ended.threw /\ Ended.at = "credential" /\ apiKey = "")
    \/ (Ended.threw /\ Ended.at \in {"fetch", "status"})
    \/ (Ended.threw /\ Ended.at = "parse"
          /\ Ended.message = ParseFailedMessage)
    \/ (~Ended.threw /\ Ended.at = "return")


\* C19: in a build without the credential no fetch is ever issued, and
\* every call of generateMeetingPrep and of parseClientFromDocuments ends
\* with the configuration error.
C19_NoCredentialNoRequest ==
  apiKey = "" =>
    /\ requests = 0
    /\ pending = << >>
    /\ last.op \in {"generateMeetingPrep", "parseClientFromDocuments"} =>
         /\ Ended.threw
         /\ Ended.at = "credential"
         /\ Ended.error = "Error"
         /\ Ended.message = MissingKeyMessage
         /\ "fetch" \notin Range(last.calls)

\* parseClientFromDocuments was called without the credential and failed.
C19_Witness ==
  /\ apiKey = ""
  /\ last.op = "parseClientFromDocuments"
  /\ Ended.threw
  /\ requests = 0

\* The text generateMeetingPrep hands to JSON.parse: the trimmed content,
\* without its code fences when it starts with one.
JsonContent(trimmed) ==
  IF StartsWith(trimmed, Fence) THEN StripFences(trimmed) ELSE trimmed

\* The object the provider sent as the content of its reply.
ProviderObject(reply) ==
  JSONparse(JsonContent(Trim(ContentOfReply(reply).value.string))).value

\* The list fields of a MeetingPrep and their keys in the provider's JSON.
PrepListFields ==
  << [field |-> "keyTopicsToDiscuss",
      key |-> << "k", "e", "y", "T", "o", "p", "i", "c", "s", "T", "o", "D",
                 "i", "s", "c", "u", "s", "s" >>],
     [field |-> "openActionItems",
      key |-> << "o", "p", "e", "n", "A", "c", "t", "i", "o", "n", "I", "t",
                 "e", "m", "s" >>],
     [field |-> "questionsToAsk",
      key |-> << "q", "u", "e", "s", "t", "i", "o", "n", "s", "T", "o", "A",
                 "s", "k" >>] >>

\* The list a list field is to hold for a provider value: its elements as
\* strings when it is an array, nothing when it is absent or null, and
\* the value as a string otherwise.
StringList(value) ==
  IF DOMAIN value = {"array"}
  THEN [i \in 1..Len(value.array) |-> ensureString(value.array[i])]
  ELSE IF value \in {Null, Undefined} THEN << >>
  ELSE << ensureString(value) >>

ListFieldsCoerced(prep, object) ==
  \A i \in 1..Len(PrepListFields) :
    prep[PrepListFields[i].field]
      = StringList(Member(object, PrepListFields[i].key))

\* C21: in the MeetingPrep generateMeetingPrep returns, each list field is
\* the provider's array with every element as a string, empty when the
\* provider's value is absent or null, and a one-element list of the value
\* as a string for any other value, 0, false and '' included.
C21_ListFieldsCoerced ==
  (last.op = "generateMeetingPrep" /\ ~Ended.threw) =>
    ListFieldsCoerced(Ended.value, ProviderObject(last.arg.reply))

\* The same for provider values that are not 0, false or ''.
ListFieldsOfTruthy(prep, object) ==
  \A i \in 1..Len(PrepListFields) :
    LET value == Member(object, PrepListFields[i].key)
    IN  (~Falsy(value) \/ value \in {Null, Undefined}) =>
          prep[PrepListFields[i].field] = StringList(value)

ListFieldsCoercedButFalsy ==
  (last.op = "generateMeetingPrep" /\ ~Ended.threw) =>
    ListFieldsOfTruthy(Ended.value, ProviderObject(last.arg.reply))

(***************************************************************************)
(* The client parseClientFromDocuments returns.                            *)
(***************************************************************************)
\* The object the provider sent as the content of its reply to
\* parseClientFromDocuments.
ProviderClient(reply) ==
  JSONparse(StringOfValue(ContentOfReply(reply).value)).value

Moderate == Str(<< "M", "o", "d", "e", "r", "a", "t", "e" >>)

Brokerage == Str(<< "B", "r", "o", "k", "e", "r", "a", "g", "e" >>)

\* Whether a record carries the id the provider gave it, or a synthesized
\* one of the given prefix when the provider gave none.
HasId(record, given, prefix) ==
  /\ ~Falsy(record.id)
  /\ given = Undefined =>
       (IsStr(record.id) /\ StartsWith(record.id.string, prefix))
  /\ ~Falsy(given) => record.id = given

GoalsCoerced(goals, given) ==
  /\ IsList(goals)
  /\ DOMAIN given # {"array"} => goals = << >>
  /\ DOMAIN given = {"array"} =>
       /\ Len(goals) = Len(given.array)
       /\ \A i \in 1..Len(goals) :
            HasId(goals[i], Member(given.array[i], << "i", "d" >>),
                  << "g", "o", "a", "l", "-", "d", "o", "c", "-" >>)

AccountsCoerced(accounts, given) ==
  /\ IsList(accounts)
  /\ DOMAIN given # {"array"} => accounts = << >>
  /\ DOMAIN given = {"array"} =>
       /\ Len(accounts) = Len(given.array)
       /\ \A i \in 1..Len(accounts) :
            /\ HasId(accounts[i], Member(given.array[i], << "i", "d" >>),
                     << "a", "c", "c", "-", "d", "o", "c", "-" >>)
            /\ IsStr(accounts[i].type)
            /\ accounts[i].type.string \in AccountTypes
            /\ accounts[i].type
                 \in {Member(given.array[i], << "t", "y", "p", "e" >>),
                      Brokerage}

ClientCoerced(client, given) ==
  /\ IsStr(client.riskProfile)
  /\ client.riskProfile.string \in RiskProfiles
  /\ client.riskProfile
       \in {Member(given, << "r", "i", "s", "k", "P", "r", "o", "f", "i",
                             "l", "e" >>), Moderate}
  /\ HasId(client, Member(given, << "i", "d" >>),
           << "c", "l", "i", "e", "n", "t", "-", "d", "o", "c", "-" >>)
  /\ GoalsCoerced(client.goals, Member(given, << "g", "o", "a", "l", "s" >>))
  /\ AccountsCoerced(client.accounts,
                     Member(given, << "a", "c", "c", "o", "u", "n", "t",
                                      "s" >>))

\* C22: a Client returned by parseClientFromDocuments has one of the four
\* risk profiles (Moderate for an unknown one), lists as goals and
\* accounts (empty when the provider's value is no array), one of the five
\* account types on every account (Brokerage for an unknown one), and a
\* non-empty id on itself and on every goal and account, synthesized when
\* the provider gave none.
C22_ClientCoerced ==
  (last.op = "parseClientFromDocuments" /\ ~Ended.threw) =>
    ClientCoerced(Ended.value, ProviderClient(last.arg.reply))

\* A client was returned for a reply with an unknown risk profile, a goal
\* without an id and an account of an unknown type.
C22_Witness ==
  /\ last.op = "parseClientFromDocuments"
  /\ ~Ended.threw
  /\ Member(ProviderClient(last.arg.reply),
            << "r", "i", "s", "k", "P", "r", "o", "f", "i", "l", "e" >>)
       = Str(<< "R", "i", "s", "k", "y" >>)
  /\ Ended.value.riskProfile = Moderate
  /\ Len(Ended.value.goals) = 1
  /\ StartsWith(Ended.value.goals[1].id.string,
                << "g", "o", "a", "l", "-", "d", "o", "c", "-" >>)
  /\ Len(Ended.value.accounts) = 1
  /\ Ended.value.accounts[1].type = Brokerage

(***************************************************************************)
(* The meeting prep of the App.                                            *)
(***************************************************************************)
\* The number of meeting-prep requests that are in flight.
PrepsInFlight ==
  Cardinality({ i \in 1..Len(pending) :
                  pending[i].fn = "handleGenerateMeetingPrep" })

\* C23: whatever the advisor does while requests complete, at most one
\* meeting-prep request is in flight, isGenerating is true exactly while
\* one is, and Generate and Regenerate take a click exactly while
\* isGenerating is false.
C23_OneRequestInFlight ==
  /\ [](/\ PrepsInFlight <= 1
        /\ isGenerating <=> PrepsInFlight = 1
        /\ (~isGenerating /\ clicks < MaxClicks)
             => ENABLED HandleGenerateMeetingPrep)
  /\ [][clicks' # clicks => ~isGenerating]_vars

\* A second generation is in flight while the advisor looks at another
\* client.
C23_Witness ==
  /\ isGenerating
  /\ clicks = 2
  /\ PrepsInFlight = 1
  /\ \E i \in 1..Len(pending) : pending[i].args.clientId # selectedClientId

\* A generation ended by a failure.
GenerationFailed ==
  /\ last.op \in {"handleGenerateMeetingPrep", "completeMeetingPrep"}
  /\ last.threw

\* C24: every generation that was started leaves the generating state
\* when its request completes; after a failure isGenerating is false, the
\* error is set, no request was issued in its place and the buttons take
\* a click again; never are more requests issued than buttons clicked.
C24_GenerationEnds ==
  /\ isGenerating ~> ~isGenerating
  /\ [](GenerationFailed =>
          /\ ~isGenerating
          /\ ~GenerateDisabled
          /\ error # Null
          /\ error # Str(<< >>)
          /\ PrepsInFlight = 0)
  /\ [](requests <= clicks)
  /\ [][last'.op = "completeMeetingPrep" => requests' = requests]_vars

\* The request of a second generation failed.
C24_Witness ==
  /\ GenerationFailed
  /\ last.op = "completeMeetingPrep"
  /\ clicks = 2
  /\ requests = 2
  /\ ~isGenerating
  /\ error # Null

\* C25: a meeting prep that is displayed was generated for the selected
\* client, and an error that is shown was produced for the selected client:
\* the result of a request is ignored once another client is selected.
C25_ResultForSelectedClient ==
  /\ meetingPrep # Null => shown.prep.clientId = selectedClientId
  /\ error # Null => shown.error.clientId = selectedClientId

\* C28: a meeting prep that is displayed for the selected client was
\* computed from the interactions that are shown: once the list was
\* changed, a prep computed from the earlier list is not displayed, be it
\* that of a request in flight at the time of the change.
C28_PrepFromShownInteractions ==
  (meetingPrep # Null /\ shown.prep.clientId = selectedClientId)
    => shown.prep.interactions = interactions

(***************************************************************************)
(* Two tabs of the same browser profile, each running addInteraction or    *)
(* addClient.  A tab's call is two steps on the shared key: getItem, then  *)
(* setItem of the list it read with its record pushed.                     *)
(***************************************************************************)

AddFunctions == {"addInteraction", "addClient"}

\* INTERACTIONS_KEY for addInteraction, CLIENTS_KEY for addClient.
KeyOf(fn, cKey, iKey) == IF fn = "addClient" THEN cKey ELSE iKey

\* The records the tabs add: form clients, and notes of one date.
TabInputs(fn) ==
  IF fn = "addClient"
  THEN { c \in ClientInputs : DOMAIN c = {"name"} }
  ELSE { i \in InteractionInputs : i.date = "2024-10-20" }

AddTo(fn, data, input, t, s) ==
  IF fn = "addClient"
  THEN addClient(data, input, t, s)
  ELSE addInteraction(data, input, t, s)

\* const all = getAllInteractions() / const customClients = getCustomClients()
TabReads ==
  \E t \in Tabs, fn \in AddFunctions :
    \E input \in TabInputs(fn) :
      /\ tabs[t].pc # "read"
      /\ Len(Items(clientsKey)) + Len(Items(interactionsKey)) < MaxRecords
      /\ tabs' = [tabs EXCEPT ![t] =
                    [pc |-> "read", fn |-> fn, input |-> input,
                     read |-> KeyOf(fn, clientsKey, interactionsKey)]]
      /\ UNCHANGED << netVars, prepVars, docVars, mockClients, clientsKey,
                      interactionsKey, now, appVars, last >>

WrittenBy_Reread(tab, current, t, s) ==
  AddTo(tab.fn, current, tab.input, t, s)

\* all.push(newInteraction); localStorage.setItem(KEY, JSON.stringify(all)):
\* `all` is the list the tab read, whatever the key holds by now.
WrittenBy(tab, current, t, s) ==
  AddTo(tab.fn, tab.read, tab.input, t, s)

TabWriteBy(t, out) ==
  /\ clientsKey' = KeyOf(tabs[t].fn, out.store, clientsKey)
  /\ interactionsKey' = KeyOf(tabs[t].fn, interactionsKey, out.store)
  /\ tabs' = [tabs EXCEPT ![t] =
                [pc |-> "returned", fn |-> tabs[t].fn, ret |-> out.ret,
                 threw |-> out.threw]]
  /\ last' = Call(tabs[t].fn, tabs[t].input, out)

TabWrites ==
  \E t \in Tabs, s \in RandomSuffixes :
    /\ tabs[t].pc = "read"
    /\ TabWriteBy(t, WrittenBy(tabs[t],
                               KeyOf(tabs[t].fn, clientsKey, interactionsKey),
                               now, s))
    /\ UNCHANGED << netVars, prepVars, docVars, mockClients, now, appVars >>

NextTabs ==
  \/ TabReads
  \/ TabWrites

SpecTabs == InitStore /\ [][NextTabs]_vars

\* The list persisted under the key of the function a tab ran.
PersistedFor(tab) == Items(KeyOf(tab.fn, clientsKey, interactionsKey))

\* Tab t has just completed its write.
TabWrote(t) == tabs[t].pc = "read" /\ tabs'[t].pc = "returned"

\* C26: two tabs interleave their add calls at the granularity of single
\* storage reads and writes.  A tab's write stores exactly the list that tab
\* read before with its own record pushed, whatever the other tab has written
\* in between, and the call returns that record without an exception: neither
\* tab finds out that the key changed under it.  (The state where a returned
\* record is missing from the persisted list is C26_Witness.)
C26_LostUpdateUndetected ==
  /\ [][\A t \in Tabs :
          TabWrote(t) =>
            /\ ~tabs'[t].threw
            /\ Items(KeyOf(tabs[t].fn, clientsKey', interactionsKey'))
                 = Append(Items(tabs[t].read), tabs'[t].ret)]_vars
  /\ [](\A t \in Tabs : tabs[t].pc = "returned" => ~tabs[t].threw)

\* Both tabs' calls returned their record, and one of the records is not in
\* the persisted list.
C26_Witness ==
  /\ \A t \in Tabs : tabs[t].pc = "returned" /\ ~tabs[t].threw
  /\ tabs[1].fn = tabs[2].fn
  /\ \E t \in Tabs :
       \A i \in 1..Len(PersistedFor(tabs[t])) :
         PersistedFor(tabs[t])[i] # tabs[t].ret

(***************************************************************************)
(* DocumentClientOnboarding: the dialog that makes a client from uploaded  *)
(* documents.  The component stays mounted while it is closed, so its      *)
(* state outlives a close, and the App behind the open dialog cannot be    *)
(* clicked.                                                                *)
(***************************************************************************)
ClientChars == << "c", "l", "i", "e", "n", "t", "-" >>

DocChars == ClientChars \o << "d", "o", "c", "-" >>

CustomChars == ClientChars \o << "c", "u", "s", "t", "o", "m", "-" >>

\* The id that a string of characters spells: 'client-1' is the first
\* built-in client's id, 'client-doc-...' an id of the document parser.  No
\* reply here spells the id of a stored custom client.
IdOfString(chars) ==
  IF \E n \in 1..9 : chars = ClientChars \o NatChars(n)
  THEN MkId("client-",
            CHOOSE n \in 1..9 : chars = ClientChars \o NatChars(n), 0)
  ELSE IF StartsWith(chars, DocChars)
  THEN MkId("client-doc-", SubSeq(chars, Len(DocChars) + 1, Len(chars)), 0)
  ELSE IF StartsWith(chars, CustomChars)
  THEN MkId(CUSTOM_PREFIX,
            SubSeq(chars, Len(CustomChars) + 1, Len(chars)), 0)
  ELSE MkId("", chars, 0)

IdOfValue(v) == IF IsStr(v) THEN IdOfString(v.string) ELSE MkId("", v, 0)

\* The JSON of a client that carries a built-in client's id.
NamedClientJson ==
  << "{", "\"", "i", "d", "\"", ":", "\"", "c", "l", "i", "e", "n", "t",
     "-", "1", "\"", ",", "\"", "n", "a", "m", "e", "\"", ":", "\"", "P",
     "a", "t", "\"", "}" >>

\* How the fetch of a parse may settle: rejected, answered with a client
\* without an id or with a built-in client's id, or with no choices.
DocReplies ==
  { [rejected |-> TRUE, ok |-> FALSE, status |-> 0, body |-> << >>],
    [rejected |-> FALSE, ok |-> TRUE, status |-> 200,
     body |-> Envelope(Str(ClientJson))],
    [rejected |-> FALSE, ok |-> TRUE, status |-> 200,
     body |-> Envelope(Str(NamedClientJson))],
    [rejected |-> FALSE, ok |-> TRUE, status |-> 200,
     body |-> << "{", "}" >>] }

\* The "from documents" button of the App.
OpenOnboarding ==
  /\ ~showDocOnboarding
  /\ showDocOnboarding' = TRUE
  /\ last' = Handled("setShowDocOnboarding", NoArgs, FALSE, << >>)
  /\ UNCHANGED << netVars, prepVars, tabs, documents, isParsing,
                  parsedClient, formData, docError, mockClients, clientsKey,
                  interactionsKey, now, appVars >>

\* handleFileChange with .txt files, on the upload step (shown without
\* formData).
HandleFileChange ==
  \E docs \in DocumentSets :
    /\ showDocOnboarding
    /\ formData = Null
    /\ documents' = docs
    /\ parsedClient' = Null
    /\ formData' = Null
    /\ docError' = Null
    /\ last' = Handled("handleFileChange", docs, FALSE, << >>)
    /\ UNCHANGED << netVars, prepVars, tabs, showDocOnboarding, isParsing,
                    mockClients, clientsKey, interactionsKey, now, appVars >>

\* disabled={documents.length === 0 || isParsing}
ParseDisabled == documents = << >> \/ isParsing

\* handleParse up to the fetch of parseClientFromDocuments; without a
\* credential it ends in its catch and finally at once.
ParseStarts(out) ==
  IF out.threw
  THEN /\ docError' = out.message
       /\ isParsing' = FALSE
       /\ last' = Handled("handleParse", documents, TRUE,
                          << "parseClientFromDocuments" >>)
       /\ UNCHANGED << pending, requests >>
  ELSE /\ docError' = Null
       /\ isParsing' = TRUE
       /\ pending' = Append(pending, [fn |-> "handleParse",
                                      args |-> documents])
       /\ requests' = requests + 1
       /\ last' = Handled("handleParse", documents, FALSE, << "fetch" >>)

\* The Parse button of the upload step.
HandleParse ==
  /\ showDocOnboarding
  /\ formData = Null
  /\ ~ParseDisabled
  /\ requests < MaxRequests
  /\ ParseStarts(parseClientFromDocumentsBegin(apiKey))
  /\ UNCHANGED << apiKey, prepVars, tabs, showDocOnboarding, documents,
                  parsedClient, formData, mockClients, clientsKey,
                  interactionsKey, now, appVars >>

\* client.aum.toString() and the copies put into the review form.
FormOf(client) ==
  [name |-> client.name, aum |-> NumberChars(client.aum.number),
   riskProfile |-> client.riskProfile, advisor |-> client.advisor,
   goals |-> client.goals, accounts |-> client.accounts]

\* setParsedClient(client); setFormData({...})
ParseArrives(out) ==
  /\ parsedClient' = out.value
  /\ formData' = FormOf(out.value)

\* handleParse from the settled fetch on: the try, the catch, the finally.
ParseEnds(docs, out) ==
  /\ IF out.threw
     THEN /\ docError' = out.message
          /\ UNCHANGED << parsedClient, formData >>
     ELSE /\ ParseArrives(out)
          /\ UNCHANGED docError
  /\ isParsing' = FALSE
  /\ last' = Handled("completeParse", docs, out.threw,
                     << "parseClientFromDocuments" >>)

\* The fetch of a pending parse settles and handleParse runs to its end.
CompleteParse ==
  \E i \in 1..Len(pending), reply \in DocReplies :
    /\ pending[i].fn = "handleParse"
    /\ pending' = Without(pending, i)
    /\ ParseEnds(pending[i].args, parseClientFromDocumentsEnd(reply, now))
    /\ UNCHANGED << apiKey, requests, prepVars, tabs, showDocOnboarding,
                    documents, mockClients, clientsKey, interactionsKey, now,
                    appVars >>

\* handleClose: every piece of dialog state but isParsing is reset, then
\* onClose hides the dialog.
Closed ==
  /\ documents' = << >>
  /\ parsedClient' = Null
  /\ formData' = Null
  /\ docError' = Null
  /\ showDocOnboarding' = FALSE

\* The Cancel and X buttons, enabled while a parse is under way as well.
HandleClose ==
  /\ showDocOnboarding
  /\ Closed
  /\ last' = Handled("handleClose", NoArgs, FALSE, << >>)
  /\ UNCHANGED << netVars, prepVars, tabs, isParsing, mockClients,
                  clientsKey, interactionsKey, now, appVars >>

\* The client handleSaveClient builds from the parsed client and the form.
SavedClient(parsed, form, t) ==
  [id |-> IdOfValue(parsed.id), name |-> form.name,
   aum |-> OrElse(parseFloat(form.aum), Num(0)),
   riskProfile |-> form.riskProfile, advisor |-> form.advisor,
   lastContact |-> Today(t), goals |-> form.goals,
   accounts |-> form.accounts]

\* setSelectedClientId(client.id): the id of the record handed to addClient.
CreatedSelection(client, add) ==
  client.id

\* onClientCreated(client) and then handleClose(); when the selected id
\* changes, the effect on selectedClientId runs with it.
ClientCreated(client, add, id, ss) ==
  IF add.threw
  THEN /\ last' = Handled("handleSaveClient", client, TRUE, << "addClient" >>)
       /\ UNCHANGED << clientsKey, interactionsKey, appVars, meetingPrep,
                       shown, docVars >>
  ELSE /\ clientsKey' = add.store
       /\ clients' = getAllClients(mockClients, add.store).ret
       /\ selectedClientId' = id
       /\ last' = Handled("handleSaveClient", client, FALSE,
                          << "addClient", "getAllClients" >>)
       /\ IF id # selectedClientId
          THEN SelectionEffect(id, ss)
          ELSE UNCHANGED << interactionsKey, interactions, error,
                            meetingPrep, shown >>
       /\ Closed
       /\ UNCHANGED isParsing

SaveClient(client, add, ss) ==
  ClientCreated(client, add, CreatedSelection(client, add), ss)

\* The Save Client button of the review step (shown with formData).
HandleSaveClient ==
  \E s \in RandomSuffixes, ss \in SelectSuffixes :
    /\ showDocOnboarding
    /\ formData # Null
    /\ parsedClient # Null
    /\ Len(Items(clientsKey)) < MaxCustom
    /\ Len(Items(interactionsKey)) <= MaxSeedOn
    /\ SaveClient(SavedClient(parsedClient, formData, now),
                  addClient(clientsKey,
                            SavedClient(parsedClient, formData, now), now, s),
                  ss)
    /\ UNCHANGED << netVars, isGenerating, clicks, tabs, mockClients, now >>

\* The App with its selector, its add-client form, its delete button and
\* the document dialog, which covers the others while it is open.
NextOnboard ==
  \/ (~showDocOnboarding /\ SelectClient)
  \/ (/\ ~showDocOnboarding
      /\ Len(Items(interactionsKey)) <= MaxSeedOn
      /\ HandleAddClient)
  \/ (~showDocOnboarding /\ DeleteSelectedClient)
  \/ OpenOnboarding
  \/ HandleFileChange
  \/ HandleParse
  \/ CompleteParse
  \/ HandleClose
  \/ HandleSaveClient

SpecOnboard == InitPrep /\ [][NextOnboard]_vars

\* The client stored last and the ids of the listed clients.
ClientIds == { clients[i].id : i \in 1..Len(clients) }

JustCreated ==
  /\ last.op \in {"handleAddClient", "handleSaveClient"}
  /\ ~last.threw
  /\ "addClient" \in Range(last.calls)

\* C27: after a selection, a manual creation, a creation from documents and
\* a deletion alike, selectedClientId is the id of a client in clients, and
\* right after a creation it is the id under which the new client was
\* stored.
C27_SelectedIsListed ==
  /\ selectedClientId \in ClientIds
  /\ JustCreated => selectedClientId = CreatedClient.id

\* A client made from documents is selected under the id the parser gave
\* it, which is not the id it was stored under.
SelectedUnderParsedId ==
  (last.op = "handleSaveClient" /\ ~last.threw)
    => /\ selectedClientId = last.arg.id
       /\ selectedClientId # CreatedClient.id

\* C29: once handleClose has run, documents, parsedClient and formData stay
\* empty until documents are uploaded and parsed again, whatever parse was
\* under way at the close: a parsed client and its form are held only
\* together with the documents they were parsed from, and Save Client stores
\* a client only then.
C29_ClosedDialogStaysEmpty ==
  /\ [](formData # Null \/ parsedClient # Null => documents # << >>)
  /\ [][(last'.op = "handleSaveClient" /\ clientsKey' # clientsKey)
          => documents # << >>]_vars

(***************************************************************************)
(* The two partial-update functions on stores filled by the two add        *)
(* functions.                                                              *)
(***************************************************************************)
NextUpdate ==
  \/ (Created < MaxRecords /\ AddClient)
  \/ (Created < MaxRecords /\ AddInteraction)
  \/ UpdateClient
  \/ UpdateInteraction

SpecUpdate == InitStore /\ [][NextUpdate]_vars

\* What an update call that did not throw did to the list `old` it found
\* stored: with a record of the id, the first such record still has the id,
\* the list is as long as before, every other record is as it was and the
\* updated record is returned; without one, null is returned and nothing is
\* written.
UpdateKeepsIdentity(old, new, call) ==
  IF FindIndex(old, call.arg.id) = 0
  THEN Ret(call) = Null /\ ~call.wrote /\ new = old
  ELSE /\ Len(new) = Len(old)
       /\ new[FindIndex(old, call.arg.id)].id = call.arg.id
       /\ \A i \in 1..Len(old) :
            i # FindIndex(old, call.arg.id) => new[i] = old[i]
       /\ Ret(call) = new[FindIndex(old, call.arg.id)]

\* C30: updateClient and updateInteraction never change a record's identity.
\* For every id and every partial update, one carrying an id or a clientId
\* included, the updated record keeps the id it was looked up by, the number
\* and the order of the stored records stay, every other record is
\* unchanged, and an unknown id, a built-in client's id included, returns
\* null without a write.
C30_UpdateKeepsIdentity ==
  [][/\ (last'.op = "updateClient" /\ ~last'.threw)
          => UpdateKeepsIdentity(Items(clientsKey), Items(clientsKey'), last')
     /\ (last'.op = "updateInteraction" /\ ~last'.threw)
          => UpdateKeepsIdentity(Items(interactionsKey),
                                 Items(interactionsKey'), last')]_vars

\* The same for updates that carry no id.
C30_WithoutIdInUpdates ==
  [][/\ (last'.op = "updateClient" /\ ~last'.threw
           /\ "id" \notin DOMAIN last'.arg.updates)
          => UpdateKeepsIdentity(Items(clientsKey), Items(clientsKey'), last')
     /\ (last'.op = "updateInteraction" /\ ~last'.threw
           /\ "id" \notin DOMAIN last'.arg.updates)
          => UpdateKeepsIdentity(Items(interactionsKey),
                                 Items(interactionsKey'), last')]_vars

====
